---- MODULE Spec2Model ----
(***************************************************************************)
(* ERPWeb: order state machines, inventory ledger and financial ledger.    *)
(*                                                                         *)
(* The database is modelled at READ COMMITTED with row locks               *)
(* (select_for_update): a request is a process, a transaction keeps its    *)
(* writes in a private overlay until it commits, and a statement that      *)
(* needs a row locked by another transaction waits.                        *)
(* A call of a model method made outside a transaction (a script, a test,  *)
(* a form) is one step.                                                    *)
(* Money is counted in thousandths (0.001), so 0.01 is 10.                 *)
(***************************************************************************)
EXTENDS Integers, Sequences, FiniteSets, TLC

\* ------------------------------------------------------------------ bounds
NProcs == 2
NProducts == 2
NPurchaseOrders == 1
NSalesOrders == 2
NLedgerDocs == 1
MaxFin == 2
MaxOps == 2
MaxQty == 2
MaxKeyLen == 2

Procs == 1..NProcs
Products == 1..NProducts
POIds == 1..NPurchaseOrders
SOIds == 1..NSalesOrders
\* source documents the requests made to the ledger alone are about, and the
\* source_id an edit may move a movement to
LedgerDocs == 1..NLedgerDocs
OTHER_SOURCE == 999

\* --------------------------------------------------------------- constants
NULL == 0
NOW == 1
MONEY_Q == 10
NOTES_MAX_LENGTH == 255

PAYABLE == "PAYABLE"
RECEIVABLE == "RECEIVABLE"
PURCHASE == "PURCHASE"
SALE == "SALE"
OPEN == "OPEN"
PAID == "PAID"
VOID == "VOID"

MovementTypes == {PAYABLE, RECEIVABLE}
SourceTypes == {PURCHASE, SALE}
Statuses == {OPEN, PAID, VOID}

ALL_FIELDS == {"movement_type", "source_type", "source_id", "amount", "status", "notes", "paid_at"}

\* ------------------------------------------------------------------- state
VARIABLES
    product,      \* Product table: stock, is_active
    product_lock, \* row lock owner of each Product row (0 = free)
    movements,    \* StockMovement table (append-only log), in insertion order
    po,           \* PurchaseOrder table: status and audit fields
    po_lines,     \* PurchaseOrderLine rows of each order, by id
    po_lock,      \* row lock owner of each PurchaseOrder row
    so,           \* SalesOrder table: status and audit fields
    so_lines,     \* SalesOrderLine rows of each order, by id
    so_lock,      \* row lock owner of each SalesOrder row
    fin,          \* FinancialMovement table: row id = index
    fin_lock,     \* row lock owner of each FinancialMovement row (0 = free)
    proc,         \* per request process: pc, arguments, in-memory instance
    tx,           \* per request process: uncommitted writes of its transaction
    outcome,      \* the last finished request: what, whether it succeeded, on what
    ops           \* number of operations started (bounds the run)

stock_vars == <<product, product_lock, movements>>
order_vars == <<po, po_lines, po_lock, so, so_lines, so_lock>>
fin_vars == <<fin, fin_lock>>
vars == <<product, product_lock, movements, po, po_lines, po_lock, so, so_lines, so_lock,
          fin, fin_lock, proc, tx, outcome, ops>>

\* ------------------------------------------------------------ money helpers
\* Decimal.quantize(MONEY_Q, rounding=ROUND_HALF_UP): ties go away from zero
Quantize(x) ==
    IF x >= 0 THEN ((x + (MONEY_Q \div 2)) \div MONEY_Q) * MONEY_Q
    ELSE 0 - (((0 - x + (MONEY_Q \div 2)) \div MONEY_Q) * MONEY_Q)

\* finance.services._q2: quantize, negatives clamp to 0.00 (None, which gives
\* 0.00, is the empty sequence of an optional argument and never reaches here)
_q2(x) == LET q == Quantize(x) IN IF q < 0 THEN 0 ELSE q

Take(s, n) == IF Len(s) <= n THEN s ELSE SubSeq(s, 1, n)

\* ------------------------------------------------- FinancialMovement rows
FinKey(r) == <<r.movement_type, r.source_type, r.source_id>>

RowOf(inst) == [f \in ALL_FIELDS |-> inst[f]]

InstOf(id, row) == [pk |-> id] @@ row

FinIds(t) == 1..Len(t)

\* Meta.constraints: the three CheckConstraints of the table
fin_mov_amount_gte_0(r) == r.amount >= 0

\* faulty variant: the table without the constraint fin_mov_paid_requires_paid_at
fin_mov_paid_requires_paid_at_absent(r) == TRUE

fin_mov_paid_requires_paid_at(r) == (r.status = PAID /\ r.paid_at # NULL) \/ r.status # PAID
fin_mov_non_paid_no_paid_at(r) == r.status = PAID \/ r.paid_at = NULL

CheckConstraints(r) ==
    /\ fin_mov_amount_gte_0(r)
    /\ fin_mov_paid_requires_paid_at(r)
    /\ fin_mov_non_paid_no_paid_at(r)

\* faulty variant: the table without the unique constraint
uniq_fin_movement_per_source_absent(t, id, r) == TRUE

\* Meta.constraints: UniqueConstraint uniq_fin_movement_per_source, as the
\* table enforces it on a row that would be stored under id
uniq_fin_movement_per_source(t, id, r) ==
    \A j \in FinIds(t) : j # id => FinKey(t[j]) # FinKey(r)

\* faulty variant: clean() without the comparison with the stored row
FinancialMovement_clean_no_prev(inst, t) ==
    /\ ~(inst.status = PAID /\ inst.amount <= 0)
    /\ ~(inst.status = VOID /\ inst.paid_at # NULL)

\* faulty variant: clean() comparing status, type and source with the stored
\* row, but not the amount
FinancialMovement_clean_no_amount(inst, t) ==
    /\ ~(inst.status = PAID /\ inst.amount <= 0)
    /\ ~(inst.status = VOID /\ inst.paid_at # NULL)
    /\ (inst.pk # NULL /\ inst.pk \in FinIds(t)) =>
          LET prev == t[inst.pk] IN
          prev.status \in {PAID, VOID} =>
              /\ inst.status = prev.status
              /\ inst.movement_type = prev.movement_type
              /\ inst.source_type = prev.source_type
              /\ inst.source_id = prev.source_id

\* FinancialMovement.clean, called by full_clean with the committed table t
FinancialMovement_clean(inst, t) ==
    /\ ~(inst.status = PAID /\ inst.amount <= 0)
    /\ ~(inst.status = VOID /\ inst.paid_at # NULL)
    /\ (inst.pk # NULL /\ inst.pk \in FinIds(t)) =>
          LET prev == t[inst.pk] IN
          prev.status \in {PAID, VOID} =>
              /\ inst.status = prev.status
              /\ inst.movement_type = prev.movement_type
              /\ inst.source_type = prev.source_type
              /\ inst.source_id = prev.source_id
              /\ inst.amount = prev.amount

\* Model.full_clean: field choices, clean(), then the unique validation
FinancialMovement_full_clean(inst, t) ==
    /\ inst.movement_type \in MovementTypes
    /\ inst.source_type \in SourceTypes
    /\ inst.status \in Statuses
    /\ inst.source_id >= 0
    /\ FinancialMovement_clean(inst, t)
    /\ uniq_fin_movement_per_source(t, inst.pk, RowOf(inst))

\* the part of save() before full_clean: amount to 2 decimals, paid_at set
\* for PAID and cleared for OPEN/VOID
SaveNormalize(inst) ==
    LET a == Quantize(inst.amount)
        pa == IF inst.status = PAID
              THEN (IF inst.paid_at = NULL THEN NOW ELSE inst.paid_at)
              ELSE NULL
    IN [inst EXCEPT !.amount = a, !.paid_at = pa]

\* FinancialMovement.save(update_fields=uf) on the committed table t.
\* Result: ok, the in-memory instance afterwards, the table afterwards.
FinancialMovement_save(inst, uf, t) ==
    LET a == Quantize(inst.amount)
        i1 == [inst EXCEPT !.amount = a]
    IN
    IF i1.status = PAID /\ a <= 0
    THEN [ok |-> FALSE, inst |-> i1, fin |-> t]
    ELSE
      LET i2 == SaveNormalize(inst) IN
      IF ~FinancialMovement_full_clean(i2, t)
      THEN [ok |-> FALSE, inst |-> i2, fin |-> t]
      ELSE
        IF i2.pk = NULL
        THEN \* INSERT
          LET r == RowOf(i2) IN
          IF CheckConstraints(r) /\ uniq_fin_movement_per_source(t, NULL, r)
          THEN [ok |-> TRUE, inst |-> [i2 EXCEPT !.pk = Len(t) + 1], fin |-> Append(t, r)]
          ELSE [ok |-> FALSE, inst |-> i2, fin |-> t]
        ELSE \* UPDATE of the fields in uf
          LET old == t[i2.pk]
              r == [f \in ALL_FIELDS |-> IF f \in uf THEN i2[f] ELSE old[f]]
          IN
          IF CheckConstraints(r) /\ uniq_fin_movement_per_source(t, i2.pk, r)
          THEN [ok |-> TRUE, inst |-> i2, fin |-> [t EXCEPT ![i2.pk] = r]]
          ELSE [ok |-> FALSE, inst |-> i2, fin |-> t]

\* faulty variant: pay() without the check of an already PAID instance
FinancialMovement_pay_no_paid_check(inst, t) ==
    IF inst.status = VOID \/ inst.amount <= 0
    THEN [ok |-> FALSE, inst |-> inst, fin |-> t]
    ELSE FinancialMovement_save([inst EXCEPT !.status = PAID], {"status", "paid_at"}, t)

\* FinancialMovement.pay
FinancialMovement_pay(inst, t) ==
    IF inst.status = VOID \/ inst.status = PAID \/ inst.amount <= 0
    THEN [ok |-> FALSE, inst |-> inst, fin |-> t]
    ELSE FinancialMovement_save([inst EXCEPT !.status = PAID], {"status", "paid_at"}, t)

\* faulty variant: void() without the early return on a VOID instance
FinancialMovement_void_not_idempotent(inst, reason, t) ==
    IF inst.status = PAID THEN [ok |-> FALSE, inst |-> inst, fin |-> t]
    ELSE
      LET i1 == [inst EXCEPT !.status = VOID, !.paid_at = NULL,
                             !.notes = IF reason # <<>> THEN Take(reason, NOTES_MAX_LENGTH) ELSE @]
          uf == IF reason # <<>> THEN {"status", "paid_at", "notes"} ELSE {"status", "paid_at"}
      IN FinancialMovement_save(i1, uf, t)

\* faulty variant: void() returning without a save
FinancialMovement_void_without_save(inst, reason, t) ==
    IF inst.status = PAID THEN [ok |-> FALSE, inst |-> inst, fin |-> t]
    ELSE [ok |-> TRUE, inst |-> inst, fin |-> t]

\* FinancialMovement.void(reason); a reason is a sequence of words
FinancialMovement_void(inst, reason, t) ==
    IF inst.status = PAID THEN [ok |-> FALSE, inst |-> inst, fin |-> t]
    ELSE IF inst.status = VOID THEN [ok |-> TRUE, inst |-> inst, fin |-> t]
    ELSE
      LET i1 == [inst EXCEPT !.status = VOID, !.paid_at = NULL,
                             !.notes = IF reason # <<>> THEN Take(reason, NOTES_MAX_LENGTH) ELSE @]
          uf == IF reason # <<>> THEN {"status", "paid_at", "notes"} ELSE {"status", "paid_at"}
      IN FinancialMovement_save(i1, uf, t)


\* ---------------------------------------------------------- order tables
DRAFT == "DRAFT"
CONFIRMED == "CONFIRMED"
RECEIVED == "RECEIVED"
CANCELLED == "CANCELLED"
TYPE_IN == "IN"
TYPE_OUT == "OUT"

POFields == {"status", "confirmed_by", "confirmed_at", "received_by", "received_at"}
SOFields == {"status", "confirmed_by", "confirmed_at", "cancelled_by", "cancelled_at", "cancel_reason"}

NewPO == [status |-> DRAFT, confirmed_by |-> NULL, confirmed_at |-> NULL,
          received_by |-> NULL, received_at |-> NULL]
NewSO == [status |-> DRAFT, confirmed_by |-> NULL, confirmed_at |-> NULL,
          cancelled_by |-> NULL, cancelled_at |-> NULL, cancel_reason |-> <<>>]

\* UPDATE ... SET of the columns in uf only
ApplyFields(row, inst, uf) == [f \in DOMAIN row |-> IF f \in uf THEN inst[f] ELSE row[f]]

\* sum(quantity * price for the lines), price being unit_cost or unit_price
RECURSIVE SumLines(_, _)
SumLines(lines, price) ==
    IF lines = <<>> THEN 0
    ELSE Head(lines).quantity * Head(lines)[price] + SumLines(Tail(lines), price)

\* _money: quantize to 2 decimals, sign kept
_money(x) == Quantize(x)

\* PurchaseOrder.total_amount / SalesOrder.total_amount over the lines read
PurchaseOrder_total_amount(lines) == _money(SumLines(lines, "unit_cost"))
SalesOrder_total_amount(lines) == _money(SumLines(lines, "unit_price"))

\* finance.services._safe_po_total / _safe_so_total
_safe_po_total(lines) == _q2(SumLines(lines, "unit_cost"))
_safe_so_total(lines) == _q2(SumLines(lines, "unit_price"))

\* ------------------------------------------------------- request processes
NoInst ==
    [pk |-> NULL, movement_type |-> PAYABLE, source_type |-> PURCHASE, source_id |-> 0,
     amount |-> 0, status |-> OPEN, notes |-> <<>>, paid_at |-> NULL]

\* kind: the request; oid: the order or movement it is about; user: the actor;
\* locked: the view read the order with select_for_update; snap: the order as
\* the view read it; lines: the lines the method read; idx: next line;
\* todo: product rows still to lock; amt: the amount argument of ensure;
\* mtype, qty: the stock movement asked for; prod: the product as a form read it;
\* product_id, qty, unit_price: the body of a line request; ordering: the
\* ordering parameter of a listing, order_by: the key given to the query;
\* net_open: the net_open of a summary.
\* An idle process keeps its last request as it stood when it finished, and
\* ok: whether that request succeeded
IdleProc ==
    [pc |-> "idle", kind |-> "none", ok |-> TRUE, oid |-> 0, user |-> NULL, locked |-> FALSE,
     inst |-> NoInst, snap |-> NewPO, lines |-> <<>>, idx |-> 0, todo |-> {},
     mt |-> PAYABLE, amt |-> <<>>, reason |-> <<>>,
     mtype |-> TYPE_IN, qty |-> 0, prod |-> [stock |-> 0, is_active |-> TRUE],
     product_id |-> 0, unit_price |-> <<>>,
     ordering |-> <<>>, order_by |-> <<>>, net_open |-> <<>>]

EmptyTx ==
    [touched |-> {}, stock |-> [q \in Products |-> 0], movs |-> <<>>,
     po_id |-> 0, po_uf |-> {}, po_row |-> NewPO,
     so_id |-> 0, so_uf |-> {}, so_row |-> NewSO]

\* the last finished request: its kind, its result, its object, its process,
\* the movement type and amount it was about; n counts the finished requests
NoOutcome ==
    [op |-> "none", ok |-> TRUE, id |-> NULL, p |-> 0, mt |-> PAYABLE, amt |-> <<>>, n |-> 0]

\* values the requests of the ledger are drawn from
Amounts == {0 - 10, 0, 1000, 1005}
AmountArgs == {<<>>} \cup {<<a>> : a \in Amounts}
Reasons == {<<>>, <<"r1">>}
UpdateFieldSets ==
    {ALL_FIELDS, {"status", "paid_at"}, {"amount"}, {"status"}, {"paid_at"}}

\* the assignments a caller makes to amount and source_id before a save
Edits(inst) ==
    {<<inst.amount, inst.source_id>>, <<inst.amount, OTHER_SOURCE>>}
        \cup {<<a, inst.source_id>> : a \in Amounts}

\* faulty variant: the lookup by source_id alone
FinLookup_by_source_id(t, mt, st, sid) ==
    {j \in FinIds(t) : t[j].source_id = sid}

\* filter(movement_type=mt, source_type=st, source_id=sid)
FinLookup(t, mt, st, sid) ==
    {j \in FinIds(t) : FinKey(t[j]) = <<mt, st, sid>>}

FinFirst(t, mt, st, sid) ==
    LET S == FinLookup(t, mt, st, sid) IN CHOOSE j \in S : \A k \in S : j <= k

Release(lk, p) == [x \in DOMAIN lk |-> IF lk[x] = p THEN 0 ELSE lk[x]]

\* the end of a request: its transaction is over, every row lock it holds is
\* released, the process is idle again
EndRequest(p, ok, id) ==
    /\ proc' = [proc EXCEPT ![p].pc = "idle", ![p].ok = ok]
    /\ tx' = [tx EXCEPT ![p] = EmptyTx]
    /\ outcome' = [op |-> proc[p].kind, ok |-> ok, id |-> id, p |-> p,
                   mt |-> proc[p].mt, amt |-> proc[p].amt, n |-> outcome.n + 1]
    /\ product_lock' = Release(product_lock, p)
    /\ po_lock' = Release(po_lock, p)
    /\ so_lock' = Release(so_lock, p)

\* COMMIT: the overlay t of the transaction becomes the committed state
CommitStock(t) ==
    /\ product' = [q \in Products |->
                     IF q \in t.touched THEN [product[q] EXCEPT !.stock = t.stock[q]]
                     ELSE product[q]]
    /\ movements' = movements \o t.movs

CommitOrders(t) ==
    /\ po' = IF t.po_id = 0 THEN po
             ELSE [po EXCEPT ![t.po_id] = ApplyFields(@, t.po_row, t.po_uf)]
    /\ so' = IF t.so_id = 0 THEN so
             ELSE [so EXCEPT ![t.so_id] = ApplyFields(@, t.so_row, t.so_uf)]
    /\ UNCHANGED <<po_lines, so_lines>>

\* ROLLBACK: the overlay is dropped
Rollback(p) ==
    /\ UNCHANGED <<product, movements, po, po_lines, so, so_lines, fin>>
    /\ fin_lock' = Release(fin_lock, p)
    /\ EndRequest(p, FALSE, proc[p].oid)

CommitTx(p, t, newfin) ==
    /\ CommitStock(t)
    /\ CommitOrders(t)
    /\ fin' = newfin
    /\ fin_lock' = Release(fin_lock, p)
    /\ EndRequest(p, TRUE, proc[p].oid)

Commit(p, newfin) == CommitTx(p, tx[p], newfin)

\* a request refused before its transaction began: nothing is written
Refuse(p, req) ==
    /\ proc' = [proc EXCEPT ![p] = [req EXCEPT !.pc = "idle", !.ok = FALSE]]
    /\ outcome' = [op |-> req.kind, ok |-> FALSE, id |-> req.oid, p |-> p,
                   mt |-> req.mt, amt |-> req.amt, n |-> outcome.n + 1]
    /\ UNCHANGED <<stock_vars, order_vars, fin_vars, tx>>

Start(p) ==
    /\ proc[p].pc = "idle"
    /\ ops < MaxOps
    /\ ops' = ops + 1

\* faulty variant: the row is read without select_for_update
LockFree_ignored(p, id) == TRUE

\* select_for_update on a FinancialMovement row: granted when no other
\* transaction holds the row
LockFree(p, id) == fin_lock[id] \in {0, p}

\* an UPDATE waits for the row lock of another transaction
CanWrite(p, res) ==
    \A j \in FinIds(fin) : (j \in FinIds(res.fin) /\ res.fin[j] # fin[j]) => LockFree(p, j)

\* a call of a model method outside a transaction, req being the call (its
\* kind, the instance it ran on, its arguments): nothing but the
\* FinancialMovement table changes
LedgerDone(p, res, req) ==
    /\ fin' = res.fin
    /\ proc' = [proc EXCEPT ![p] = [req EXCEPT !.pc = "idle", !.ok = res.ok]]
    /\ outcome' = [op |-> req.kind, ok |-> res.ok, id |-> req.oid, p |-> p,
                   mt |-> req.mt, amt |-> req.amt, n |-> outcome.n + 1]
    /\ UNCHANGED <<stock_vars, order_vars, fin_lock, tx>>

\* ---- FinancialMovement.objects.create(**kwargs): a new instance, saved
FMCreate(p) ==
    /\ Start(p)
    /\ Len(fin) < MaxFin
    /\ \E k \in {<<PAYABLE, PURCHASE>>, <<RECEIVABLE, SALE>>}, sid \in LedgerDocs,
          a \in Amounts, st \in Statuses :
         LET inst == [NoInst EXCEPT !.movement_type = k[1], !.source_type = k[2],
                                    !.source_id = sid, !.amount = a, !.status = st]
             res == FinancialMovement_save(inst, ALL_FIELDS, fin)
         IN LedgerDone(p, res, [IdleProc EXCEPT !.kind = "create", !.oid = res.inst.pk,
                                                !.inst = inst])

\* ---- FinancialMovement.objects.get(pk=id): an instance read without a lock
FMGet(p) ==
    /\ Start(p)
    /\ \E id \in FinIds(fin) :
         proc' = [proc EXCEPT ![p] = [IdleProc EXCEPT !.pc = "loaded", !.kind = "script",
                                                      !.oid = id, !.inst = InstOf(id, fin[id])]]
    /\ UNCHANGED <<stock_vars, order_vars, fin_vars, tx, outcome>>

\* ---- instance.pay() on an instance read earlier
FMInstPay(p) ==
    /\ proc[p].pc = "loaded"
    /\ LET res == FinancialMovement_pay(proc[p].inst, fin) IN
         /\ CanWrite(p, res)
         /\ LedgerDone(p, res, [proc[p] EXCEPT !.kind = "inst_pay"])
    /\ UNCHANGED ops

\* ---- instance.void(reason) on an instance read earlier
FMInstVoid(p) ==
    /\ proc[p].pc = "loaded"
    /\ \E reason \in Reasons :
         LET res == FinancialMovement_void(proc[p].inst, reason, fin) IN
         /\ CanWrite(p, res)
         /\ LedgerDone(p, res, [proc[p] EXCEPT !.kind = "inst_void", !.reason = reason])
    /\ UNCHANGED ops

\* ---- attribute assignments on an instance read earlier, then save(uf)
FMInstSave(p) ==
    /\ proc[p].pc = "loaded"
    /\ \E st \in Statuses, pa \in {NULL, NOW}, e \in Edits(proc[p].inst),
          uf \in UpdateFieldSets :
         LET inst == [proc[p].inst EXCEPT !.status = st, !.amount = e[1], !.paid_at = pa,
                                          !.source_id = e[2]]
             res == FinancialMovement_save(inst, uf, fin)
         IN /\ CanWrite(p, res)
            /\ LedgerDone(p, res, [proc[p] EXCEPT !.kind = "inst_save", !.inst = inst])
    /\ UNCHANGED ops


\* ------------------------------------------------ finance.services: ensure
SourceTypeOf(mt) == IF mt = PAYABLE THEN PURCHASE ELSE SALE

AutoNote(mt) == IF mt = PAYABLE THEN <<"Auto: Purchase RECEIVED">> ELSE <<"Auto: Sale CONFIRMED">>

\* computed = _q2(amount) if amount is not None else _safe_po_total(po)
EnsureComputed(mt, lines, arg) ==
    IF arg # <<>> THEN _q2(arg[1])
    ELSE IF mt = PAYABLE THEN _safe_po_total(lines) ELSE _safe_so_total(lines)

\* the lines of every source document of the ledger requests: total 10.00
LedgerLines == <<[product |-> 1, quantity |-> 2, unit_cost |-> 500, unit_price |-> 500]>>

\* a direct call of ensure_payable_for_purchase / ensure_receivable_for_sale
EnsureStart(p) ==
    /\ Start(p)
    /\ \E mt \in MovementTypes, arg \in AmountArgs :
       \E sid \in LedgerDocs :
         proc' = [proc EXCEPT ![p] =
                    [IdleProc EXCEPT !.pc = "ens_get", !.kind = "ensure", !.oid = sid, !.mt = mt,
                                     !.amt = <<EnsureComputed(mt, LedgerLines, arg)>>]]
    /\ UNCHANGED <<stock_vars, order_vars, fin_vars, tx, outcome>>

\* get_or_create, first half: select_for_update().get(**kwargs)
EnsGet(p) ==
    /\ proc[p].pc = "ens_get"
    /\ LET S == FinLookup(fin, proc[p].mt, SourceTypeOf(proc[p].mt), proc[p].oid) IN
       IF S = {}
       THEN /\ proc' = [proc EXCEPT ![p].pc = "ens_clean"]
            /\ UNCHANGED <<stock_vars, order_vars, fin_vars, tx, outcome, ops>>
       ELSE IF Cardinality(S) > 1
       THEN \* MultipleObjectsReturned
            Rollback(p) /\ UNCHANGED ops
       ELSE LET j == FinFirst(fin, proc[p].mt, SourceTypeOf(proc[p].mt), proc[p].oid) IN
            /\ LockFree(p, j)
            /\ fin_lock' = [fin_lock EXCEPT ![j] = p]
            /\ proc' = [proc EXCEPT ![p].pc = "ens_found", ![p].inst = InstOf(j, fin[j])]
            /\ UNCHANGED <<stock_vars, order_vars, fin, tx, outcome, ops>>

EnsNewInst(p) ==
    [NoInst EXCEPT !.movement_type = proc[p].mt, !.source_type = SourceTypeOf(proc[p].mt),
                   !.source_id = proc[p].oid, !.amount = proc[p].amt[1],
                   !.notes = AutoNote(proc[p].mt)]

\* get_or_create, create(): save() runs full_clean, whose unique validation
\* raises ValidationError, which get_or_create does not catch
EnsClean(p) ==
    /\ proc[p].pc = "ens_clean"
    /\ IF FinancialMovement_full_clean(SaveNormalize(EnsNewInst(p)), fin)
       THEN /\ proc' = [proc EXCEPT ![p].pc = "ens_insert"]
            /\ UNCHANGED <<stock_vars, order_vars, fin_vars, tx, outcome>>
       ELSE Rollback(p)
    /\ UNCHANGED ops

\* get_or_create, create(): the INSERT; on IntegrityError it calls get() again
EnsInsert(p) ==
    /\ proc[p].pc = "ens_insert"
    /\ LET r == RowOf(SaveNormalize(EnsNewInst(p))) IN
       IF uniq_fin_movement_per_source(fin, NULL, r)
       THEN /\ Len(fin) < MaxFin
            /\ Commit(p, Append(fin, r))
       ELSE /\ proc' = [proc EXCEPT ![p].pc = "ens_get"]
            /\ UNCHANGED <<stock_vars, order_vars, fin_vars, tx, outcome>>
    /\ UNCHANGED ops

\* faulty variant: the amount is recomputed whatever the status
EnsureMustUpdate_any_status(inst, computed) == _q2(inst.amount) # computed

\* if not created: obj.status == OPEN and _q2(obj.amount) != computed
EnsureMustUpdate(inst, computed) == inst.status = OPEN /\ _q2(inst.amount) # computed

\* the row existed: the amount follows the computed one only while OPEN
EnsFound(p) ==
    /\ proc[p].pc = "ens_found"
    /\ LET inst == proc[p].inst IN
       IF EnsureMustUpdate(inst, proc[p].amt[1])
       THEN LET res == FinancialMovement_save([inst EXCEPT !.amount = proc[p].amt[1]],
                                              {"amount"}, fin)
            IN IF res.ok THEN Commit(p, res.fin) ELSE Rollback(p)
       ELSE Commit(p, fin)
    /\ UNCHANGED ops

\* --------------------------------------- finance.views.financial_movement_pay
PayStart(p) ==
    /\ Start(p)
    /\ \E id \in FinIds(fin) :
         /\ LockFree(p, id)
         /\ fin_lock' = [fin_lock EXCEPT ![id] = p]
         /\ proc' = [proc EXCEPT ![p] = [IdleProc EXCEPT !.pc = "pay_locked", !.kind = "pay",
                                                         !.oid = id, !.inst = InstOf(id, fin[id])]]
    /\ UNCHANGED <<stock_vars, order_vars, fin, tx, outcome>>

PayDo(p) ==
    /\ proc[p].pc = "pay_locked"
    /\ LET res == FinancialMovement_pay(proc[p].inst, fin) IN
       IF res.ok THEN Commit(p, res.fin) ELSE Rollback(p)
    /\ UNCHANGED ops

\* ------------------- finance.admin.FinancialMovementAdmin.mark_selected_as_paid
\* the body of the loop of the action for one locked row: PAID, non-OPEN and
\* amount <= 0 are skipped, a ValidationError is counted and skipped; ok says
\* whether the row was updated
mark_selected_as_paid(inst, t) ==
    IF inst.status = PAID \/ inst.status # OPEN \/ inst.amount <= 0
    THEN [ok |-> FALSE, inst |-> inst, fin |-> t]
    ELSE LET fm == [inst EXCEPT !.status = PAID] IN
         IF ~FinancialMovement_full_clean(fm, t)
         THEN [ok |-> FALSE, inst |-> fm, fin |-> t]
         ELSE FinancialMovement_save(fm, {"status", "paid_at"}, t)

\* the action on one selected movement: the row is locked inside the atomic
\* block
AdminPayStart(p) ==
    /\ Start(p)
    /\ \E id \in FinIds(fin) :
         /\ LockFree(p, id)
         /\ fin_lock' = [fin_lock EXCEPT ![id] = p]
         /\ proc' = [proc EXCEPT ![p] = [IdleProc EXCEPT !.pc = "admin_pay_locked",
                                                         !.kind = "admin_pay",
                                                         !.oid = id, !.inst = InstOf(id, fin[id])]]
    /\ UNCHANGED <<stock_vars, order_vars, fin, tx, outcome>>

AdminPayDo(p) ==
    /\ proc[p].pc = "admin_pay_locked"
    /\ LET res == mark_selected_as_paid(proc[p].inst, fin) IN
       IF res.ok THEN Commit(p, res.fin) ELSE Rollback(p)
    /\ UNCHANGED ops

\* --------------------------------- finance.services.void_receivable_for_sale
VoidStart(p) ==
    /\ Start(p)
    /\ \E sid \in LedgerDocs, reason \in Reasons :
         proc' = [proc EXCEPT ![p] = [IdleProc EXCEPT !.pc = "void_get", !.kind = "void_receivable",
                                                      !.oid = sid, !.mt = RECEIVABLE,
                                                      !.reason = reason]]
    /\ UNCHANGED <<stock_vars, order_vars, fin_vars, tx, outcome>>

VoidGet(p) ==
    /\ proc[p].pc = "void_get"
    /\ LET S == FinLookup(fin, RECEIVABLE, SALE, proc[p].oid) IN
       IF S = {} THEN Commit(p, fin)
       ELSE IF Cardinality(S) > 1 THEN Rollback(p)
       ELSE LET j == FinFirst(fin, RECEIVABLE, SALE, proc[p].oid) IN
            /\ LockFree(p, j)
            /\ fin_lock' = [fin_lock EXCEPT ![j] = p]
            /\ proc' = [proc EXCEPT ![p].pc = "void_found", ![p].inst = InstOf(j, fin[j])]
            /\ UNCHANGED <<stock_vars, order_vars, fin, tx, outcome>>
    /\ UNCHANGED ops

AutoCancelNote == <<"Auto: Sale CANCELLED">>

\* faulty variant: the ValidationError of the service is swallowed by the
\* caller and the transaction commits
VoidRefused_swallowed(p) == Commit(p, fin)

\* the ValidationError void_receivable_for_sale raises on a PAID receivable:
\* _safe_call_finance_void catches TypeError only, the error leaves the
\* atomic block of the caller and everything it wrote is rolled back
VoidRefused(p) == Rollback(p)

VoidFound(p) ==
    /\ proc[p].pc = "void_found"
    /\ LET inst == proc[p].inst IN
       IF inst.status = PAID THEN VoidRefused(p)
       ELSE IF inst.status = VOID THEN Commit(p, fin)
       ELSE LET res == FinancialMovement_void(inst,
                          IF proc[p].reason # <<>> THEN proc[p].reason ELSE AutoCancelNote, fin)
            IN IF res.ok THEN Commit(p, res.fin) ELSE Rollback(p)
    /\ UNCHANGED ops

\* ------------------------------------------------------ stock: StockMovement
\* Product.Meta.constraints: CheckConstraint stock_product_stock_non_negative
stock_product_stock_non_negative(s) == s >= 0

\* Product.stock as the transaction with overlay t reads it
TxStock(t, q) == IF q \in t.touched THEN t.stock[q] ELSE product[q].stock

\* StockMovement.clean
StockMovement_clean(q, mtype, qty) ==
    /\ q \in Products
    /\ qty > 0
    /\ mtype \in {TYPE_IN, TYPE_OUT}
    /\ product[q].is_active

\* faulty variant: no check of the stock a movement leaves
StockWriteAccepted_unchecked(mtype, new_stock) == TRUE

\* StockMovement.save refuses an OUT that leaves less than 0, and the table
\* refuses the UPDATE of a stock below 0
StockWriteAccepted(mtype, new_stock) ==
    /\ ~(mtype = TYPE_OUT /\ new_stock < 0)
    /\ stock_product_stock_non_negative(new_stock)

\* faulty variant: the movement row is written, the stock of the product
\* is not
StockMovement_save_log_only(t, q, mtype, qty, user) ==
    IF ~StockMovement_clean(q, mtype, qty) THEN [ok |-> FALSE, tx |-> t]
    ELSE [ok |-> TRUE,
          tx |-> [t EXCEPT !.movs = Append(@, [product |-> q, movement_type |-> mtype,
                                               quantity |-> qty, created_by |-> user])]]

\* faulty variant: a movement without created_by is accepted
StockMovement_save_any_author(t, q, mtype, qty, user) ==
    IF ~StockMovement_clean(q, mtype, qty) THEN [ok |-> FALSE, tx |-> t]
    ELSE
      LET new_stock == IF mtype = TYPE_IN THEN TxStock(t, q) + qty ELSE TxStock(t, q) - qty IN
      IF ~StockWriteAccepted(mtype, new_stock) THEN [ok |-> FALSE, tx |-> t]
      ELSE [ok |-> TRUE,
            tx |-> [t EXCEPT !.touched = @ \cup {q}, !.stock[q] = new_stock,
                             !.movs = Append(@, [product |-> q, movement_type |-> mtype,
                                                 quantity |-> qty, created_by |-> user])]]

\* StockMovement.save of a new movement inside the transaction with overlay
\* t, which holds the row lock of product q; full_clean refuses a movement
\* without created_by (the field is not nullable)
StockMovement_save(t, q, mtype, qty, user) ==
    IF ~StockMovement_clean(q, mtype, qty) \/ user = NULL THEN [ok |-> FALSE, tx |-> t]
    ELSE
      LET new_stock == IF mtype = TYPE_IN THEN TxStock(t, q) + qty ELSE TxStock(t, q) - qty IN
      IF ~StockWriteAccepted(mtype, new_stock) THEN [ok |-> FALSE, tx |-> t]
      ELSE [ok |-> TRUE,
            tx |-> [t EXCEPT !.touched = @ \cup {q}, !.stock[q] = new_stock,
                             !.movs = Append(@, [product |-> q, movement_type |-> mtype,
                                                 quantity |-> qty, created_by |-> user])]]

\* faulty variant: the loop stops after one line
CreateMovements_one_line(t, lines, k, mtype, user) ==
    IF k > Len(lines) THEN [ok |-> TRUE, tx |-> t]
    ELSE StockMovement_save(t, lines[k].product, mtype, lines[k].quantity, user)

\* for ln in lines: StockMovement.objects.create(...), from line k on
RECURSIVE CreateMovements(_, _, _, _, _)
CreateMovements(t, lines, k, mtype, user) ==
    IF k > Len(lines) THEN [ok |-> TRUE, tx |-> t]
    ELSE LET r == StockMovement_save(t, lines[k].product, mtype, lines[k].quantity, user) IN
         IF r.ok THEN CreateMovements(r.tx, lines, k + 1, mtype, user)
         ELSE [ok |-> FALSE, tx |-> t]

\* ---- stock.views.movement_create: a direct IN/OUT movement
DM_Start(p) ==
    /\ Start(p)
    /\ \E q \in Products, mtype \in {TYPE_IN, TYPE_OUT}, qty \in 1..MaxQty :
         LET req == [IdleProc EXCEPT !.pc = "dm_save", !.kind = "movement", !.oid = q,
                                     !.user = p, !.mtype = mtype, !.qty = qty]
         IN IF StockMovement_clean(q, mtype, qty)
            THEN /\ proc' = [proc EXCEPT ![p] = req]
                 /\ UNCHANGED <<stock_vars, order_vars, fin_vars, tx, outcome>>
            ELSE Refuse(p, req)

\* the atomic block of StockMovement.save: lock the product, write, commit
DM_Save(p) ==
    /\ proc[p].pc = "dm_save"
    /\ product_lock[proc[p].oid] \in {0, p}
    /\ LET res == StockMovement_save(tx[p], proc[p].oid, proc[p].mtype, proc[p].qty,
                                     proc[p].user)
       IN IF res.ok THEN CommitTx(p, res.tx, fin) ELSE Rollback(p)
    /\ UNCHANGED ops

\* faulty variant: save writes an instance that has a pk
StockMovement_is_new_ignored(pk) == TRUE

\* StockMovement.save: is_new = self.pk is None; an instance that is not new
\* raises ValidationError
StockMovement_is_new(pk) == pk = NULL

\* StockMovementAdmin.has_change_permission / has_delete_permission
StockMovementAdmin_has_permission(perm) == FALSE

\* the log without its k-th row
WithoutRow(log, k) == SubSeq(log, 1, k - 1) \o SubSeq(log, k + 1, Len(log))

\* ---- save() of a stored movement whose quantity was changed in memory:
\* full_clean, then the is_new test
SM_Save(p) ==
    /\ Start(p)
    /\ \E k \in 1..Len(movements), qty \in 0..MaxQty :
         LET mv == movements[k]
             req == [IdleProc EXCEPT !.kind = "movement_save", !.oid = k, !.user = p,
                                     !.mtype = mv.movement_type, !.qty = qty]
         IN IF StockMovement_clean(mv.product, mv.movement_type, qty) /\ StockMovement_is_new(k)
            THEN /\ movements' = [movements EXCEPT ![k].quantity = qty]
                 /\ proc' = [proc EXCEPT ![p] = req]
                 /\ outcome' = [op |-> req.kind, ok |-> TRUE, id |-> k, p |-> p,
                                mt |-> req.mt, amt |-> req.amt, n |-> outcome.n + 1]
                 /\ UNCHANGED <<product, product_lock, order_vars, fin_vars, tx>>
            ELSE Refuse(p, req)

\* ---- the admin of StockMovement: the change view and the delete view of a
\* stored movement answer 403 when the permission is refused
SM_Admin(p) ==
    /\ Start(p)
    /\ \E k \in 1..Len(movements), perm \in {"change", "delete"} :
         LET req == [IdleProc EXCEPT !.kind = IF perm = "change" THEN "movement_admin_change"
                                              ELSE "movement_admin_delete",
                                     !.oid = k, !.user = p]
         IN IF StockMovementAdmin_has_permission(perm) /\ perm = "delete"
            THEN /\ movements' = WithoutRow(movements, k)
                 /\ proc' = [proc EXCEPT ![p] = req]
                 /\ outcome' = [op |-> req.kind, ok |-> TRUE, id |-> k, p |-> p,
                                mt |-> req.mt, amt |-> req.amt, n |-> outcome.n + 1]
                 /\ UNCHANGED <<product, product_lock, order_vars, fin_vars, tx>>
            ELSE Refuse(p, req)

\* ---- ui.views.stock_product_edit: the form reads the product without a
\* lock; the save writes every column, stock as it was read
PE_Load(p) ==
    /\ Start(p)
    /\ \E q \in Products :
         proc' = [proc EXCEPT ![p] = [IdleProc EXCEPT !.pc = "pe_save", !.kind = "product_edit",
                                                      !.oid = q, !.user = p,
                                                      !.prod = product[q]]]
    /\ UNCHANGED <<stock_vars, order_vars, fin_vars, tx, outcome>>

PE_Save(p) ==
    /\ proc[p].pc = "pe_save"
    /\ product_lock[proc[p].oid] \in {0, p}
    /\ \E active \in BOOLEAN :
         LET prod == [proc[p].prod EXCEPT !.is_active = active] IN
         IF stock_product_stock_non_negative(prod.stock)
         THEN /\ product' = [product EXCEPT ![proc[p].oid] = prod]
              /\ proc' = [proc EXCEPT ![p].pc = "idle", ![p].ok = TRUE, ![p].prod = prod]
              /\ outcome' = [op |-> "product_edit", ok |-> TRUE, id |-> proc[p].oid, p |-> p,
                             mt |-> proc[p].mt, amt |-> proc[p].amt, n |-> outcome.n + 1]
              /\ UNCHANGED <<product_lock, movements, order_vars, fin_vars, tx>>
         ELSE Rollback(p)
    /\ UNCHANGED ops

\* ------------------------------------------------- purchases: PurchaseOrder
\* PurchaseOrder.clean (the supplier is active)
PurchaseOrder_clean(inst) ==
    /\ inst.status \in {CONFIRMED, RECEIVED} =>
          (inst.confirmed_by # NULL /\ inst.confirmed_at # NULL)
    /\ inst.status = RECEIVED => (inst.received_by # NULL /\ inst.received_at # NULL)
    /\ inst.status # RECEIVED => (inst.received_by = NULL /\ inst.received_at = NULL)

\* faulty variant: the pass over the lines without the rule on unit_cost
_validate_lines_no_cost(lines) ==
    /\ lines # <<>>
    /\ \A k \in 1..Len(lines) :
          /\ lines[k].quantity > 0
          /\ product[lines[k].product].is_active

\* PurchaseOrder._validate_lines
_validate_lines(lines) ==
    /\ lines # <<>>
    /\ \A k \in 1..Len(lines) :
          /\ lines[k].quantity > 0
          /\ lines[k].unit_cost > 0
          /\ product[lines[k].product].is_active

\* PurchaseOrder.confirm on the instance self: the instance to store, or not ok
PurchaseOrder_confirm(self, user, lines) ==
    LET inst == [self EXCEPT !.status = CONFIRMED, !.confirmed_by = user, !.confirmed_at = NOW,
                             !.received_by = NULL, !.received_at = NULL]
    IN IF self.status # DRAFT THEN [ok |-> FALSE, inst |-> self]
       ELSE IF ~_validate_lines(lines) THEN [ok |-> FALSE, inst |-> self]
       ELSE [ok |-> PurchaseOrder_clean(inst), inst |-> inst]

\* the first statements of PurchaseOrder.receive: status, then the lines
PurchaseOrder_receive_begin(self, lines) ==
    self.status = CONFIRMED /\ _validate_lines(lines)

\* the instance PurchaseOrder.receive stores after the movements
PurchaseOrder_receive_inst(self, user) ==
    [self EXCEPT !.status = RECEIVED, !.received_by = user, !.received_at = NOW,
                 !.confirmed_by = IF @ = NULL THEN user ELSE @,
                 !.confirmed_at = IF @ = NULL THEN NOW ELSE @]

\* faulty variant: cancel without the check of the status
PurchaseOrder_cancel_unguarded(self) ==
    LET inst == [self EXCEPT !.status = CANCELLED, !.received_by = NULL, !.received_at = NULL]
    IN [ok |-> PurchaseOrder_clean(inst), inst |-> inst]

\* PurchaseOrder.cancel on the instance self
PurchaseOrder_cancel(self) ==
    LET inst == [self EXCEPT !.status = CANCELLED, !.received_by = NULL, !.received_at = NULL]
    IN IF self.status \in {RECEIVED, CANCELLED} THEN [ok |-> FALSE, inst |-> self]
       ELSE [ok |-> PurchaseOrder_clean(inst), inst |-> inst]

PO_CONFIRM_FIELDS == {"status", "confirmed_by", "confirmed_at", "received_by", "received_at"}
PO_RECEIVE_FIELDS == {"status", "received_by", "received_at", "confirmed_by", "confirmed_at"}
\* faulty variant: cancel stores the status alone
PO_CANCEL_FIELDS_status_only == {"status"}

PO_CANCEL_FIELDS == {"status", "received_by", "received_at"}

\* ---- the views of confirm / receive / cancel read the order: the API views
\* (purchases.views) without a lock, the UI views (ui.views) with
\* select_for_update inside their own atomic block
PO_Load(p) ==
    /\ Start(p)
    /\ \E i \in POIds, kind \in {"po_confirm", "po_receive", "po_cancel"}, locked \in BOOLEAN :
         /\ locked => po_lock[i] \in {0, p}
         /\ po_lock' = IF locked THEN [po_lock EXCEPT ![i] = p] ELSE po_lock
         /\ proc' = [proc EXCEPT ![p] = [IdleProc EXCEPT !.pc = "po_loaded", !.kind = kind,
                                                         !.oid = i, !.user = p,
                                                         !.locked = locked, !.snap = po[i]]]
    /\ UNCHANGED <<stock_vars, po, po_lines, so, so_lines, so_lock, fin_vars, tx, outcome>>

\* the UPDATE of the order row by the transaction of p, then COMMIT
\* faulty variant: the order is stored together with an IN movement of its
\* first line
PO_Store_with_movement(p, inst, uf) ==
    /\ po_lock[proc[p].oid] \in {0, p}
    /\ LET ln == po_lines[proc[p].oid][1] IN
       CommitTx(p, [tx[p] EXCEPT !.po_id = proc[p].oid, !.po_uf = uf, !.po_row = inst,
                                 !.touched = @ \cup {ln.product},
                                 !.stock[ln.product] = product[ln.product].stock + ln.quantity,
                                 !.movs = Append(@, [product |-> ln.product,
                                                     movement_type |-> TYPE_IN,
                                                     quantity |-> ln.quantity,
                                                     created_by |-> proc[p].user])],
                fin)

PO_Store(p, inst, uf) ==
    /\ po_lock[proc[p].oid] \in {0, p}
    /\ CommitTx(p, [tx[p] EXCEPT !.po_id = proc[p].oid, !.po_uf = uf, !.po_row = inst], fin)

PO_Confirm(p) ==
    /\ proc[p].pc = "po_loaded"
    /\ proc[p].kind = "po_confirm"
    /\ LET res == PurchaseOrder_confirm(proc[p].snap, proc[p].user, po_lines[proc[p].oid]) IN
       IF res.ok THEN PO_Store(p, res.inst, PO_CONFIRM_FIELDS) ELSE Rollback(p)
    /\ UNCHANGED ops

PO_Cancel(p) ==
    /\ proc[p].pc = "po_loaded"
    /\ proc[p].kind = "po_cancel"
    /\ LET res == PurchaseOrder_cancel(proc[p].snap) IN
       IF res.ok THEN PO_Store(p, res.inst, PO_CANCEL_FIELDS) ELSE Rollback(p)
    /\ UNCHANGED ops

PO_ReceiveBegin(p) ==
    /\ proc[p].pc = "po_loaded"
    /\ proc[p].kind = "po_receive"
    /\ IF PurchaseOrder_receive_begin(proc[p].snap, po_lines[proc[p].oid])
       THEN /\ proc' = [proc EXCEPT ![p].pc = "po_recv_line",
                                    ![p].lines = po_lines[proc[p].oid], ![p].idx = 1]
            /\ UNCHANGED <<stock_vars, order_vars, fin_vars, tx, outcome>>
       ELSE Rollback(p)
    /\ UNCHANGED ops

\* one StockMovement.objects.create of the loop of receive: clean, then the
\* row lock of the product, then the writes
PO_ReceiveLine(p) ==
    /\ proc[p].pc = "po_recv_line"
    /\ LET ln == proc[p].lines[proc[p].idx]
           q == ln.product
       IN IF ~StockMovement_clean(q, TYPE_IN, ln.quantity) THEN Rollback(p)
          ELSE /\ product_lock[q] \in {0, p}
               /\ LET res == StockMovement_save(tx[p], q, TYPE_IN, ln.quantity, proc[p].user) IN
                  IF ~res.ok THEN Rollback(p)
                  ELSE /\ product_lock' = [product_lock EXCEPT ![q] = p]
                       /\ tx' = [tx EXCEPT ![p] = res.tx]
                       /\ proc' = [proc EXCEPT
                                     ![p].idx = @ + 1,
                                     ![p].pc = IF proc[p].idx = Len(proc[p].lines)
                                               THEN "po_recv_status" ELSE "po_recv_line"]
                       /\ UNCHANGED <<product, movements, order_vars, fin_vars, outcome>>
    /\ UNCHANGED ops

\* receive after the loop: the order becomes RECEIVED, then the amount of
\* the payable is computed and ensure_payable_for_purchase is entered
PO_ReceiveStatus(p) ==
    /\ proc[p].pc = "po_recv_status"
    /\ LET i == proc[p].oid
           inst == PurchaseOrder_receive_inst(proc[p].snap, proc[p].user)
       IN IF ~PurchaseOrder_clean(inst) THEN Rollback(p)
          ELSE /\ po_lock[i] \in {0, p}
               /\ po_lock' = [po_lock EXCEPT ![i] = p]
               /\ tx' = [tx EXCEPT ![p].po_id = i, ![p].po_uf = PO_RECEIVE_FIELDS,
                                   ![p].po_row = inst]
               /\ proc' = [proc EXCEPT
                             ![p].pc = "ens_get", ![p].mt = PAYABLE,
                             ![p].amt = <<EnsureComputed(PAYABLE, po_lines[i],
                                            <<PurchaseOrder_total_amount(po_lines[i])>>)>>]
               /\ UNCHANGED <<stock_vars, po, po_lines, so, so_lines, so_lock, fin_vars, outcome>>
    /\ UNCHANGED ops

\* ----------------------------------------------------- sales: SalesOrder
SO_CONFIRM_FIELDS == {"status", "confirmed_by", "confirmed_at"}
SO_CANCEL_FIELDS == {"status", "cancelled_by", "cancelled_at", "cancel_reason"}

\* the checks SalesOrder.confirm and SalesOrder.cancel make on self before
\* their atomic block
SalesOrder_precheck(kind, self, lines) ==
    IF kind = "so_confirm" THEN self.status = DRAFT /\ lines # <<>>
    ELSE self.status \in {DRAFT, CONFIRMED}

\* faulty variant: the validation pass without the rule on unit_price
SalesOrder_confirm_validate_no_price(lines) ==
    \A k \in 1..Len(lines) :
        /\ lines[k].product \in Products
        /\ lines[k].quantity > 0
        /\ product[lines[k].product].is_active
        /\ product[lines[k].product].stock >= lines[k].quantity

\* SalesOrder.confirm, the validation pass over the lines with the locked
\* product rows
SalesOrder_confirm_validate(lines) ==
    \A k \in 1..Len(lines) :
        /\ lines[k].product \in Products
        /\ lines[k].quantity > 0
        /\ lines[k].unit_price > 0
        /\ product[lines[k].product].is_active
        /\ product[lines[k].product].stock >= lines[k].quantity

\* SalesOrder.cancel: a CONFIRMED order is cancelled by a user
SalesOrder_cancel_actor_check(self, user) == ~(self.status = CONFIRMED /\ user = NULL)

\* SalesOrder.cancel, the validation pass
SalesOrder_cancel_validate(lines) ==
    \A k \in 1..Len(lines) : lines[k].product \in Products /\ lines[k].quantity > 0

LineProducts(lines) == {lines[k].product : k \in 1..Len(lines)}

\* ---- sales.views: the view reads the order without a lock and calls the
\* method, which checks self before opening its transaction
SO_Start(p) ==
    /\ Start(p)
    /\ \E i \in SOIds, kind \in {"so_confirm", "so_cancel"}, reason \in Reasons :
         LET req == [IdleProc EXCEPT !.pc = "so_lock", !.kind = kind, !.oid = i, !.user = p,
                                     !.mt = RECEIVABLE,
                                     !.reason = IF kind = "so_cancel" THEN reason ELSE <<>>]
         IN /\ kind = "so_confirm" => reason = <<>>
            /\ IF SalesOrder_precheck(kind, so[i], so_lines[i])
               THEN /\ proc' = [proc EXCEPT ![p] = req]
                    /\ UNCHANGED <<stock_vars, order_vars, fin_vars, tx, outcome>>
               ELSE Refuse(p, req)

\* ---- SalesOrder.cancel() called without a user (a script, the fallback of
\* the view): the instance is as it was read
SO_StartNoActor(p) ==
    /\ Start(p)
    /\ \E i \in SOIds, reason \in Reasons :
         LET req == [IdleProc EXCEPT !.pc = "so_lock", !.kind = "so_cancel", !.oid = i,
                                     !.user = NULL, !.mt = RECEIVABLE, !.reason = reason]
         IN IF /\ SalesOrder_precheck("so_cancel", so[i], so_lines[i])
               /\ SalesOrder_cancel_actor_check(so[i], NULL)
            THEN /\ proc' = [proc EXCEPT ![p] = req]
                 /\ UNCHANGED <<stock_vars, order_vars, fin_vars, tx, outcome>>
            ELSE Refuse(p, req)

\* faulty variant: the order row is read again without select_for_update
SO_Lock_unlocked(p) ==
    /\ proc[p].pc = "so_lock"
    /\ LET i == proc[p].oid
           locked_so == so[i]
           go == /\ so_lock' = [so_lock EXCEPT ![i] = p]
                 /\ proc' = [proc EXCEPT ![p].pc = "so_products", ![p].lines = so_lines[i],
                                         ![p].todo = LineProducts(so_lines[i])]
                 /\ UNCHANGED <<stock_vars, po, po_lines, po_lock, so, so_lines, fin_vars,
                                tx, outcome>>
       IN IF proc[p].kind = "so_confirm"
          THEN IF locked_so.status # DRAFT \/ so_lines[i] = <<>> THEN Rollback(p) ELSE go
          ELSE IF locked_so.status = CANCELLED THEN Rollback(p)
          ELSE IF locked_so.status = DRAFT
          THEN CommitTx(p, [tx[p] EXCEPT
                              !.so_id = i, !.so_uf = SO_CANCEL_FIELDS,
                              !.so_row = [locked_so EXCEPT
                                            !.status = CANCELLED, !.cancelled_by = proc[p].user,
                                            !.cancelled_at = NOW,
                                            !.cancel_reason = Take(proc[p].reason, NOTES_MAX_LENGTH)]],
                        fin)
          ELSE IF locked_so.status # CONFIRMED \/ so_lines[i] = <<>> THEN Rollback(p)
          ELSE go
    /\ UNCHANGED ops

\* SalesOrder.objects.select_for_update().get(pk), the checks on the locked
\* row, the lines; a DRAFT order is cancelled here
SO_Lock(p) ==
    /\ proc[p].pc = "so_lock"
    /\ so_lock[proc[p].oid] \in {0, p}
    /\ LET i == proc[p].oid
           locked_so == so[i]
           go == /\ so_lock' = [so_lock EXCEPT ![i] = p]
                 /\ proc' = [proc EXCEPT ![p].pc = "so_products", ![p].lines = so_lines[i],
                                         ![p].todo = LineProducts(so_lines[i])]
                 /\ UNCHANGED <<stock_vars, po, po_lines, po_lock, so, so_lines, fin_vars,
                                tx, outcome>>
       IN IF proc[p].kind = "so_confirm"
          THEN IF locked_so.status # DRAFT \/ so_lines[i] = <<>> THEN Rollback(p) ELSE go
          ELSE IF locked_so.status = CANCELLED THEN Rollback(p)
          ELSE IF locked_so.status = DRAFT
          THEN CommitTx(p, [tx[p] EXCEPT
                              !.so_id = i, !.so_uf = SO_CANCEL_FIELDS,
                              !.so_row = [locked_so EXCEPT
                                            !.status = CANCELLED, !.cancelled_by = proc[p].user,
                                            !.cancelled_at = NOW,
                                            !.cancel_reason = Take(proc[p].reason, NOTES_MAX_LENGTH)]],
                        fin)
          ELSE IF locked_so.status # CONFIRMED \/ so_lines[i] = <<>> THEN Rollback(p)
          ELSE go
    /\ UNCHANGED ops

\* Product.objects.select_for_update().filter(id__in=product_ids): the rows
\* are locked one after the other in the order of the query (Meta.ordering)
SO_LockProduct(p) ==
    /\ proc[p].pc = "so_products"
    /\ LET q == CHOOSE x \in proc[p].todo : \A y \in proc[p].todo : x <= y IN
         /\ product_lock[q] \in {0, p}
         /\ product_lock' = [product_lock EXCEPT ![q] = p]
         /\ proc' = [proc EXCEPT ![p].todo = @ \ {q},
                                 ![p].pc = IF proc[p].todo = {q} THEN "so_run" ELSE "so_products"]
    /\ UNCHANGED <<product, movements, order_vars, fin_vars, tx, outcome, ops>>

\* confirm with every row locked: validation pass, OUT movements, status,
\* then the amount and ensure_receivable_for_sale
SO_ConfirmRun(p) ==
    /\ proc[p].pc = "so_run"
    /\ proc[p].kind = "so_confirm"
    /\ LET i == proc[p].oid
           res == CreateMovements(tx[p], proc[p].lines, 1, TYPE_OUT, proc[p].user)
       IN IF ~SalesOrder_confirm_validate(proc[p].lines) THEN Rollback(p)
          ELSE IF ~res.ok THEN Rollback(p)
          ELSE /\ tx' = [tx EXCEPT ![p] = [res.tx EXCEPT
                                            !.so_id = i, !.so_uf = SO_CONFIRM_FIELDS,
                                            !.so_row = [so[i] EXCEPT !.status = CONFIRMED,
                                                                     !.confirmed_by = proc[p].user,
                                                                     !.confirmed_at = NOW]]]
               /\ proc' = [proc EXCEPT
                             ![p].pc = "ens_get", ![p].mt = RECEIVABLE,
                             ![p].amt = <<EnsureComputed(RECEIVABLE, so_lines[i],
                                            <<SalesOrder_total_amount(so_lines[i])>>)>>]
               /\ UNCHANGED <<stock_vars, order_vars, fin_vars, outcome>>
    /\ UNCHANGED ops

\* cancel of a CONFIRMED order with every row locked: IN movements, status,
\* then void_receivable_for_sale
SO_CancelRun(p) ==
    /\ proc[p].pc = "so_run"
    /\ proc[p].kind = "so_cancel"
    /\ LET i == proc[p].oid
           res == CreateMovements(tx[p], proc[p].lines, 1, TYPE_IN, proc[p].user)
           cancel_reason == Take(proc[p].reason, NOTES_MAX_LENGTH)
       IN IF ~SalesOrder_cancel_validate(proc[p].lines) THEN Rollback(p)
          ELSE IF ~res.ok THEN Rollback(p)
          ELSE /\ tx' = [tx EXCEPT ![p] = [res.tx EXCEPT
                                            !.so_id = i, !.so_uf = SO_CANCEL_FIELDS,
                                            !.so_row = [so[i] EXCEPT !.status = CANCELLED,
                                                                     !.cancelled_by = proc[p].user,
                                                                     !.cancelled_at = NOW,
                                                                     !.cancel_reason = cancel_reason]]]
               /\ proc' = [proc EXCEPT ![p].pc = "void_get", ![p].reason = cancel_reason]
               /\ UNCHANGED <<stock_vars, order_vars, fin_vars, outcome>>
    /\ UNCHANGED ops

\* ------------------------------------------------------------- ledger spec
InitCommon ==
    /\ product_lock = [q \in Products |-> 0]
    /\ po_lock = [i \in POIds |-> 0]
    /\ so_lock = [i \in SOIds |-> 0]
    /\ fin_lock = [j \in 1..MaxFin |-> 0]
    /\ proc = [p \in Procs |-> IdleProc]
    /\ tx = [p \in Procs |-> EmptyTx]
    /\ outcome = NoOutcome
    /\ ops = 0

\* the ledger starts empty or with one movement as the requests leave one:
\* created by ensure (automatic note) or by create (no note), then possibly
\* paid (amount > 0) or voided (possibly with a reason)
InitRows ==
    {r \in [movement_type : MovementTypes, source_type : SourceTypes, source_id : LedgerDocs,
            amount : {0, 1000, 1010}, status : Statuses, notes : {<<>>, <<"r1">>} \cup
            {AutoNote(mt) : mt \in MovementTypes}, paid_at : {NULL, NOW}] :
        /\ r.source_type = SourceTypeOf(r.movement_type)
        /\ r.notes \in {<<>>, <<"r1">>, AutoNote(r.movement_type)}
        /\ r.notes = <<"r1">> => r.status = VOID
        /\ r.status = PAID => r.amount > 0
        /\ (r.status = PAID) <=> (r.paid_at # NULL)}

InitLedger ==
    /\ InitCommon
    /\ fin \in {<<>>} \cup {<<r>> : r \in InitRows}
    /\ product = [q \in Products |-> [stock |-> 0, is_active |-> TRUE]]
    /\ movements = <<>>
    /\ po = [i \in POIds |-> NewPO]
    /\ so = [i \in SOIds |-> NewSO]
    /\ po_lines = [i \in POIds |-> LedgerLines]
    /\ so_lines = [i \in SOIds |-> LedgerLines]

NextLedger ==
    \E p \in Procs :
        \/ FMCreate(p)
        \/ FMGet(p)
        \/ FMInstPay(p)
        \/ FMInstVoid(p)
        \/ FMInstSave(p)
        \/ EnsureStart(p)
        \/ EnsGet(p)
        \/ EnsClean(p)
        \/ EnsInsert(p)
        \/ EnsFound(p)
        \/ PayStart(p)
        \/ PayDo(p)
        \/ AdminPayStart(p)
        \/ AdminPayDo(p)
        \/ VoidStart(p)
        \/ VoidGet(p)
        \/ VoidFound(p)

SpecLedger == InitLedger /\ [][NextLedger]_vars

\* ------------------------------------------------- orders and stock spec
Line(q, n, c) == [product |-> q, quantity |-> n, unit_cost |-> c, unit_price |-> c]

\* the lines of the purchase order
InitPOLines == <<Line(1, 1, 500), Line(2, MaxQty, 500)>>

\* the lines the first sales order may have; the second one sells product 1
InitSOLines ==
    {<<Line(1, MaxQty, 500)>>,
     <<Line(1, 1, 500), Line(2, MaxQty, 500)>>,
     <<Line(1, 1, 500), Line(2, 1, 0)>>}

\* what a movement that gave a product its first stock looks like
FirstStock(q, n) ==
    [product |-> q, movement_type |-> TYPE_IN, quantity |-> n, created_by |-> NULL]

\* products were created with stock 0 and got their stock by IN movements;
\* product 2 may have been deactivated; the purchase order is DRAFT or was
\* confirmed; the sales orders are DRAFT; the ledger is empty
Init ==
    /\ InitCommon
    /\ fin = <<>>
    /\ \E s1 \in 1..MaxQty, s2 \in {0, MaxQty}, a2 \in BOOLEAN :
         /\ product = [q \in Products |->
                         IF q = 1 THEN [stock |-> s1, is_active |-> TRUE]
                         ELSE IF q = 2 THEN [stock |-> s2, is_active |-> a2]
                         ELSE [stock |-> 0, is_active |-> TRUE]]
         /\ movements = <<FirstStock(1, s1)>> \o (IF s2 > 0 THEN <<FirstStock(2, s2)>> ELSE <<>>)
    /\ po \in [POIds -> {NewPO, [NewPO EXCEPT !.status = CONFIRMED, !.confirmed_by = 1,
                                               !.confirmed_at = NOW]}]
    /\ po_lines = [i \in POIds |-> InitPOLines]
    /\ so = [i \in SOIds |-> NewSO]
    /\ \E l1 \in InitSOLines :
         so_lines = [i \in SOIds |-> IF i = 1 THEN l1 ELSE <<Line(1, 1, 500)>>]

Next ==
    \E p \in Procs :
        \/ DM_Start(p)
        \/ DM_Save(p)
        \/ PE_Load(p)
        \/ PE_Save(p)
        \/ PO_Load(p)
        \/ PO_Confirm(p)
        \/ PO_Cancel(p)
        \/ PO_ReceiveBegin(p)
        \/ PO_ReceiveLine(p)
        \/ PO_ReceiveStatus(p)
        \/ SO_Start(p)
        \/ SO_Lock(p)
        \/ SO_LockProduct(p)
        \/ SO_ConfirmRun(p)
        \/ SO_CancelRun(p)
        \/ EnsGet(p)
        \/ EnsClean(p)
        \/ EnsInsert(p)
        \/ EnsFound(p)
        \/ VoidGet(p)
        \/ VoidFound(p)

Spec == Init /\ [][Next]_vars

\* ------------------------------------ orders, stock and payments spec
\* the total quantity the lines hold of product q
RECURSIVE LineQty(_, _)
LineQty(lines, q) ==
    IF lines = <<>> THEN 0
    ELSE (IF Head(lines).product = q THEN Head(lines).quantity ELSE 0) + LineQty(Tail(lines), q)

\* the movements one pass over the lines creates
MovementsOf(lines, mtype, user) ==
    [k \in 1..Len(lines) |-> [product |-> lines[k].product, movement_type |-> mtype,
                              quantity |-> lines[k].quantity, created_by |-> user]]

\* Product.stock_calculated over a log: IN quantities minus OUT quantities
RECURSIVE stock_calculated(_, _)
stock_calculated(log, q) ==
    IF log = <<>> THEN 0
    ELSE (IF Head(log).product # q THEN 0
          ELSE IF Head(log).movement_type = TYPE_IN THEN Head(log).quantity
          ELSE 0 - Head(log).quantity) + stock_calculated(Tail(log), q)

\* the lines the confirmed sales order may have
SettleSOLines == {<<Line(1, 1, 500)>>, <<Line(1, 1, 500), Line(2, MaxQty, 500)>>}

\* the receivable of the confirmed sales order, as confirm created it and as
\* pay or void left it
SettleReceivable(lines, st) ==
    [movement_type |-> RECEIVABLE, source_type |-> SALE, source_id |-> 1,
     amount |-> SalesOrder_total_amount(lines), status |-> st,
     notes |-> IF st = VOID THEN AutoCancelNote ELSE AutoNote(RECEIVABLE),
     paid_at |-> IF st = PAID THEN NOW ELSE NULL]

\* requests that may be in flight: none, a product edit that read product 1
\* before the sale was confirmed, a receive of the API that has read the
\* purchase order
SettleInFlight(b1) ==
    {IdleProc,
     [IdleProc EXCEPT !.pc = "pe_save", !.kind = "product_edit", !.oid = 1, !.user = 1,
                      !.prod = [stock |-> b1, is_active |-> TRUE]],
     [IdleProc EXCEPT !.pc = "po_loaded", !.kind = "po_receive", !.oid = 1, !.user = 1,
                      !.locked = FALSE,
                      !.snap = [NewPO EXCEPT !.status = CONFIRMED, !.confirmed_by = 1,
                                             !.confirmed_at = NOW]]}

\* sales order 1 was confirmed by user 1 (its OUT movements are in the log,
\* its receivable is OPEN, PAID, VOID or was deleted in the admin), sales
\* order 2 is DRAFT, the purchase order is CONFIRMED
InitSettle ==
    /\ product_lock = [q \in Products |-> 0]
    /\ po_lock = [i \in POIds |-> 0]
    /\ so_lock = [i \in SOIds |-> 0]
    /\ fin_lock = [j \in 1..MaxFin |-> 0]
    /\ tx = [p \in Procs |-> EmptyTx]
    /\ outcome = NoOutcome
    /\ ops = 0
    /\ po = [i \in POIds |-> [NewPO EXCEPT !.status = CONFIRMED, !.confirmed_by = 1,
                                            !.confirmed_at = NOW]]
    /\ po_lines = [i \in POIds |-> InitPOLines]
    /\ so = [i \in SOIds |->
                IF i = 1 THEN [NewSO EXCEPT !.status = CONFIRMED, !.confirmed_by = 1,
                                            !.confirmed_at = NOW]
                ELSE NewSO]
    /\ \E l1 \in SettleSOLines, b1 \in 1..MaxQty :
         /\ so_lines = [i \in SOIds |-> IF i = 1 THEN l1 ELSE <<Line(1, 1, 500)>>]
         /\ movements = <<FirstStock(1, b1), FirstStock(2, MaxQty)>> \o MovementsOf(l1, TYPE_OUT, 1)
         /\ product = [q \in Products |->
                         [stock |-> (IF q = 1 THEN b1 ELSE IF q = 2 THEN MaxQty ELSE 0)
                                      - LineQty(l1, q),
                          is_active |-> TRUE]]
         /\ fin \in {<<>>} \cup {<<SettleReceivable(l1, st)>> : st \in Statuses}
         /\ \E f \in SettleInFlight(b1) :
              proc = [p \in Procs |-> IF p = 1 THEN f ELSE IdleProc]

NextSettle ==
    \E p \in Procs :
        \/ DM_Start(p)
        \/ DM_Save(p)
        \/ PE_Load(p)
        \/ PE_Save(p)
        \/ PO_Load(p)
        \/ PO_Confirm(p)
        \/ PO_Cancel(p)
        \/ PO_ReceiveBegin(p)
        \/ PO_ReceiveLine(p)
        \/ PO_ReceiveStatus(p)
        \/ SO_Start(p)
        \/ SO_Lock(p)
        \/ SO_LockProduct(p)
        \/ SO_ConfirmRun(p)
        \/ SO_CancelRun(p)
        \/ EnsGet(p)
        \/ EnsClean(p)
        \/ EnsInsert(p)
        \/ EnsFound(p)
        \/ VoidGet(p)
        \/ VoidFound(p)
        \/ PayStart(p)
        \/ PayDo(p)

SpecSettle == InitSettle /\ [][NextSettle]_vars

\* ------------------------------------------------ properties of the ledger

\* C2: in every reachable state there is at most one FinancialMovement per
\* (movement_type, source_type, source_id), also when ensure is called
\* repeatedly or concurrently for the same source document.
C2_OneMovementPerSource ==
    \A i, j \in FinIds(fin) : FinKey(fin[i]) = FinKey(fin[j]) => i = j

\* two ensure calls for the same source ran concurrently; one created the
\* movement, the other one was refused by the unique validation
C2_Witness ==
    /\ \A p \in Procs : proc[p].pc = "idle" /\ proc[p].kind = "ensure"
    /\ \A p, q \in Procs : proc[p].mt = proc[q].mt /\ proc[p].oid = proc[q].oid
    /\ \E p, q \in Procs : proc[p].ok /\ ~proc[q].ok
    /\ Len(fin) = 1

\* C3: for every stored FinancialMovement, status = PAID if and only if
\* paid_at is not null, after any sequence of create, save, pay, void and
\* ensure; a save of a non-PAID instance that carries a paid_at stores no
\* paid_at.
C3_PaidIffPaidAt ==
    \A j \in FinIds(fin) : (fin[j].status = PAID) <=> (fin[j].paid_at # NULL)

\* a VOID instance carrying a paid_at was saved, and the save went through
C3_Witness ==
    \E p \in Procs :
        /\ proc[p].pc = "idle" /\ proc[p].kind = "inst_save" /\ proc[p].ok
        /\ proc[p].inst.status = VOID /\ proc[p].inst.paid_at = NOW
        /\ outcome.p = p
        /\ fin[proc[p].oid].status = VOID
        /\ fin[proc[p].oid].paid_at = NULL

\* C4: the stored status of a FinancialMovement changes only OPEN -> PAID or
\* OPEN -> VOID; once PAID or VOID it never changes again, under any sequence
\* of pay, void, ensure and save calls.
C4_StatusTransitions ==
    [][\A j \in FinIds(fin) :
          /\ j \in FinIds(fin')
          /\ fin'[j].status # fin[j].status =>
                 fin[j].status = OPEN /\ fin'[j].status \in {PAID, VOID}]_vars

\* a save that would have reopened or voided a PAID movement was refused
C4_Witness ==
    \E p \in Procs :
        /\ proc[p].pc = "idle" /\ proc[p].kind = "inst_save" /\ ~proc[p].ok
        /\ outcome.p = p
        /\ proc[p].inst.status \in {OPEN, VOID}
        /\ proc[p].inst.paid_at = NULL
        /\ fin[proc[p].oid].status = PAID
        /\ proc[p].inst.amount = fin[proc[p].oid].amount
        /\ proc[p].inst.source_id = fin[proc[p].oid].source_id

\* C8: an ensure call that follows a successful ensure call with the same
\* source and the same amount leaves the table as it is (amount, status,
\* paid_at and notes of the movement unchanged), and the table holds exactly
\* one movement of that source.
C8_EnsureTwice ==
    [][\A p \in Procs :
          ( /\ proc[p].kind = "ensure" /\ proc[p].pc # "idle" /\ proc'[p].pc = "idle"
            /\ outcome.op = "ensure" /\ outcome.ok
            /\ outcome.mt = proc[p].mt
            /\ outcome.id = proc[p].oid
            /\ outcome.amt = proc[p].amt )
          => /\ fin' = fin
             /\ Cardinality({j \in FinIds(fin') :
                    FinKey(fin'[j]) = <<proc[p].mt, SourceTypeOf(proc[p].mt), proc[p].oid>>}) = 1]_vars

\* the first call created the movement, the second one found it; both
\* succeeded and the movement carries the amount of the calls
C8_Witness ==
    \E p, q \in Procs :
        /\ p # q /\ outcome.p = q
        /\ proc[p].pc = "idle" /\ proc[p].kind = "ensure" /\ proc[p].ok
        /\ proc[q].pc = "idle" /\ proc[q].kind = "ensure" /\ proc[q].ok
        /\ proc[p].mt = proc[q].mt /\ proc[p].oid = proc[q].oid /\ proc[p].amt = proc[q].amt
        /\ proc[p].inst.pk = NULL
        /\ proc[q].inst.pk = 1
        /\ Len(fin) = 1
        /\ fin[1].amount = proc[q].amt[1] /\ fin[1].status = OPEN
        /\ fin[1].notes = AutoNote(proc[q].mt)

\* C9: an ensure call on an existing movement changes nothing but its amount,
\* and the amount only when the movement is OPEN and the amounts differ; on
\* a PAID or VOID movement the call succeeds and leaves every field as it
\* is, whatever amount is passed.
C9_EnsureOnExisting ==
    [][\A p \in Procs :
          (proc[p].pc = "ens_found" /\ proc'[p].pc = "idle") =>
             LET j == proc[p].inst.pk IN
             /\ Len(fin') = Len(fin)
             /\ \A k \in FinIds(fin) : k # j => fin'[k] = fin[k]
             /\ fin'[j] # fin[j] =>
                    /\ fin[j].status = OPEN
                    /\ fin[j].amount # proc[p].amt[1]
                    /\ fin'[j] = [fin[j] EXCEPT !.amount = proc[p].amt[1]]
             /\ fin[j].status \in {PAID, VOID} => (fin'[j] = fin[j] /\ proc'[p].ok)]_vars

\* an ensure call found a PAID movement of another amount and returned it
C9_Witness ==
    \E p \in Procs :
        /\ proc[p].pc = "idle" /\ proc[p].kind = "ensure" /\ proc[p].ok
        /\ outcome.p = p
        /\ proc[p].inst.pk # NULL
        /\ proc[p].inst.status = PAID
        /\ proc[p].inst.amount # proc[p].amt[1]
        /\ fin[proc[p].inst.pk] = RowOf(proc[p].inst)

\* C10: void on a movement that is already VOID is a no-op: it raises no
\* error and leaves status, paid_at, amount and notes as they are, whatever
\* reason is passed (instance method and void_receivable_for_sale alike).
C10_VoidOnVoid ==
    [][\A p \in Procs :
          ( /\ proc'[p].pc = "idle"
            /\ \/ proc[p].pc = "loaded" /\ proc'[p].kind = "inst_void"
               \/ proc[p].pc = "void_found"
            /\ proc[p].inst.status = VOID )
          => (proc'[p].ok /\ fin' = fin)]_vars

\* void with a reason was called on a VOID instance whose notes are not that
\* reason; the call returned and the notes are as they were
C10_Witness ==
    \E p \in Procs :
        /\ proc[p].pc = "idle" /\ proc[p].kind = "inst_void" /\ proc[p].ok
        /\ outcome.p = p
        /\ proc[p].inst.status = VOID
        /\ proc[p].reason # <<>>
        /\ proc[p].inst.notes # proc[p].reason
        /\ fin[proc[p].oid] = RowOf(proc[p].inst)

\* C11: pay succeeds if and only if the movement is OPEN and its amount is
\* > 0; on success the stored status becomes PAID and paid_at is set, nothing
\* else changes; on a VOID movement, a PAID movement or an amount <= 0 it
\* fails and the table is as it was. Stated for the pay endpoint, which
\* reads the row under its lock, and for pay() called on an instance that
\* is the row as stored.
C11_PayIffOpenPositive ==
    [][\A p \in Procs :
          ( /\ proc'[p].pc = "idle"
            /\ \/ proc[p].pc = "pay_locked"
               \/ /\ proc[p].pc = "loaded" /\ proc'[p].kind = "inst_pay"
                  /\ RowOf(proc[p].inst) = fin[proc[p].oid] )
          => LET j == proc[p].oid IN
             /\ proc'[p].ok <=> (fin[j].status = OPEN /\ fin[j].amount > 0)
             /\ proc'[p].ok => fin' = [fin EXCEPT ![j].status = PAID, ![j].paid_at = NOW]
             /\ ~proc'[p].ok => fin' = fin]_vars

\* the endpoint refused to pay an OPEN movement of amount 0
C11_Witness ==
    \E p \in Procs :
        /\ proc[p].pc = "idle" /\ proc[p].kind = "pay" /\ ~proc[p].ok
        /\ outcome.p = p
        /\ fin[proc[p].oid].status = OPEN
        /\ fin[proc[p].oid].amount = 0
        /\ fin[proc[p].oid].paid_at = NULL

\* C12: of the pay requests (pay endpoint, admin pay action) made on one
\* movement, at most one succeeds; the one that succeeds found the row OPEN
\* and leaves it PAID with paid_at set; a request that does not succeed
\* writes nothing, so paid_at is written once.
C12_PaidOnce ==
    [][\A p \in Procs :
          ( /\ proc'[p].pc = "idle"
            /\ proc[p].pc \in {"pay_locked", "admin_pay_locked"} )
          => LET j == proc[p].oid IN
             /\ proc'[p].ok =>
                    /\ fin[j].status = OPEN /\ fin[j].paid_at = NULL
                    /\ fin' = [fin EXCEPT ![j].status = PAID, ![j].paid_at = NOW]
                    /\ \A q \in Procs \ {p} :
                          ~( /\ proc[q].pc = "idle" /\ proc[q].kind \in {"pay", "admin_pay"}
                             /\ proc[q].oid = j /\ proc[q].ok )
             /\ ~proc'[p].ok => fin' = fin]_vars

\* a pay request of the endpoint and one of the admin action ran together on
\* one OPEN movement: one paid it, the other one found it PAID
C12_Witness ==
    \E p, q \in Procs :
        /\ proc[p].pc = "idle" /\ proc[p].kind = "pay"
        /\ proc[q].pc = "idle" /\ proc[q].kind = "admin_pay"
        /\ proc[p].oid = proc[q].oid
        /\ proc[p].ok # proc[q].ok
        /\ \E r \in {p, q} : ~proc[r].ok /\ proc[r].inst.status = PAID /\ outcome.p = r
        /\ fin[proc[p].oid].status = PAID
        /\ fin[proc[p].oid].paid_at = NOW

C1_StockNonNegative ==
    \A q \in Products : product[q].stock >= 0

\* two OUT movements of one active product ran together; the first took the
\* stock the second one needed, and the second one was refused
C1_Witness ==
    \E p, r \in Procs :
        /\ p # r /\ outcome.p = r
        /\ proc[p].pc = "idle" /\ proc[p].kind = "movement" /\ proc[p].mtype = TYPE_OUT
        /\ proc[r].pc = "idle" /\ proc[r].kind = "movement" /\ proc[r].mtype = TYPE_OUT
        /\ proc[p].oid = proc[r].oid
        /\ proc[p].ok /\ ~proc[r].ok
        /\ product[proc[r].oid].is_active
        /\ product[proc[r].oid].stock < proc[r].qty
        /\ product[proc[r].oid].stock + proc[p].qty >= proc[r].qty

\* C5: a sales confirm on an order one of whose lines fails validation
\* (quantity <= 0, unit_price <= 0, inactive product, stock < quantity)
\* fails and writes nothing: no stock movement, no stock change, the order
\* as it was, no receivable; whatever the number of lines, also next to
\* another confirm on the same products.
C5_ConfirmAllOrNothing ==
    [][\A p \in Procs :
          ( /\ outcome'.n # outcome.n /\ outcome'.p = p /\ outcome'.op = "so_confirm"
            /\ \E k \in 1..Len(so_lines[outcome'.id]) :
                  LET ln == so_lines[outcome'.id][k] IN
                  \/ ln.quantity <= 0
                  \/ ln.unit_price <= 0
                  \/ ~product[ln.product].is_active
                  \/ product[ln.product].stock < ln.quantity )
          => /\ ~outcome'.ok
             /\ movements' = movements
             /\ product' = product
             /\ so' = so
             /\ fin' = fin]_vars

\* two confirms on orders that share product 1: the one whose second line
\* fails was refused after its first line had passed; its order is DRAFT,
\* it left no movement and no receivable; the other one went through
C5_Witness ==
    \E p, r \in Procs :
        /\ p # r
        /\ proc[p].pc = "idle" /\ proc[p].kind = "so_confirm" /\ ~proc[p].ok
        /\ proc[r].pc = "idle" /\ proc[r].kind = "so_confirm" /\ proc[r].ok
        /\ proc[p].oid # proc[r].oid
        /\ so[proc[p].oid].status = DRAFT
        /\ so[proc[r].oid].status = CONFIRMED
        /\ Len(so_lines[proc[p].oid]) = 2
        /\ LET l1 == so_lines[proc[p].oid][1]
               l2 == so_lines[proc[p].oid][2]
           IN /\ l1.product \in LineProducts(so_lines[proc[r].oid])
              /\ l1.unit_price > 0 /\ product[l1.product].is_active
              /\ product[l1.product].stock >= l1.quantity
              /\ \/ l2.unit_price <= 0
                 \/ ~product[l2.product].is_active
                 \/ product[l2.product].stock < l2.quantity
        /\ \A m \in 1..Len(movements) : movements[m].created_by # p
        /\ \A j \in FinIds(fin) : fin[j].source_id # proc[p].oid

C7_PurchaseStatusTransitions ==
    [][\A i \in POIds :
          po'[i].status # po[i].status =>
             <<po[i].status, po'[i].status>> \in
                 {<<DRAFT, CONFIRMED>>, <<CONFIRMED, RECEIVED>>,
                  <<DRAFT, CANCELLED>>, <<CONFIRMED, CANCELLED>>}]_vars

\* C14: an OUT movement whose quantity exceeds the stock of the product is
\* refused, and neither a movement row nor a change of the stock is stored.
C14_OutBeyondStockRefused ==
    [][\A p \in Procs :
          ( /\ proc[p].pc = "dm_save" /\ proc'[p].pc = "idle"
            /\ proc[p].mtype = TYPE_OUT
            /\ proc[p].qty > product[proc[p].oid].stock )
          => /\ ~proc'[p].ok
             /\ product' = product
             /\ movements' = movements]_vars

\* one OUT movement of more than the stock of an active product was refused;
\* the log holds no OUT movement and the product has the stock it got first
C14_Witness ==
    \E p \in Procs :
        /\ proc[p].pc = "idle" /\ proc[p].kind = "movement" /\ ~proc[p].ok
        /\ outcome.p = p /\ outcome.n = 1
        /\ proc[p].mtype = TYPE_OUT
        /\ product[proc[p].oid].is_active
        /\ proc[p].qty > product[proc[p].oid].stock
        /\ product[proc[p].oid].stock > 0
        /\ \A m \in 1..Len(movements) : movements[m].movement_type = TYPE_IN

\* C15: a successful purchase receive appends exactly one IN movement per
\* order line, with the quantity of the line, raises the stock of every
\* product by the sum of the quantities of its lines, and leaves the order
\* RECEIVED.
C15_ReceiveAppliesLines ==
    [][\A p \in Procs :
          ( /\ outcome'.n # outcome.n /\ outcome'.p = p
            /\ outcome'.op = "po_receive" /\ outcome'.ok )
          => LET i == outcome'.id IN
             /\ movements' = movements \o MovementsOf(po_lines[i], TYPE_IN, proc[p].user)
             /\ \A q \in Products :
                   product'[q].stock = product[q].stock + LineQty(po_lines[i], q)
             /\ po'[i].status = RECEIVED]_vars

\* a receive of the two-line order went through: the order is RECEIVED and
\* the log ends with the IN movements of its lines
C15_Witness ==
    \E p \in Procs :
        /\ proc[p].pc = "idle" /\ proc[p].kind = "po_receive" /\ proc[p].ok
        /\ outcome.p = p
        /\ po[proc[p].oid].status = RECEIVED
        /\ po[proc[p].oid].received_by = p
        /\ Len(po_lines[proc[p].oid]) = 2
        /\ Len(movements) >= 2
        /\ SubSeq(movements, Len(movements) - 1, Len(movements))
               = MovementsOf(po_lines[proc[p].oid], TYPE_IN, p)

\* C16: every purchase order stored as RECEIVED has exactly one
\* PAYABLE/PURCHASE movement whose source_id is the order; when a receive
\* commits, that movement is OPEN and its amount is the sum over the lines
\* of quantity x unit_cost, to 2 decimals.
C16_ReceivedHasOpenPayable ==
    [][/\ \A i \in POIds :
            po'[i].status = RECEIVED =>
               Cardinality(FinLookup(fin', PAYABLE, PURCHASE, i)) = 1
       /\ \A p \in Procs :
            ( /\ outcome'.n # outcome.n /\ outcome'.p = p
              /\ outcome'.op = "po_receive" /\ outcome'.ok )
            => \A j \in FinLookup(fin', PAYABLE, PURCHASE, outcome'.id) :
                  /\ fin'[j].status = OPEN
                  /\ fin'[j].amount = PurchaseOrder_total_amount(po_lines[outcome'.id])]_vars

\* C17: a successful sales confirm appends one OUT movement per line, lowers
\* the stock of each line's product by the quantity of the line, leaves the
\* order CONFIRMED with confirmed_by and confirmed_at, and leaves exactly one
\* RECEIVABLE/SALE movement of the order, OPEN, whose amount is the sum over
\* the lines of quantity x unit_price.
C17_ConfirmApplies ==
    [][\A p \in Procs :
          ( /\ outcome'.n # outcome.n /\ outcome'.p = p
            /\ outcome'.op = "so_confirm" /\ outcome'.ok )
          => LET i == outcome'.id
                 R == FinLookup(fin', RECEIVABLE, SALE, i)
             IN
             /\ movements' = movements \o MovementsOf(so_lines[i], TYPE_OUT, proc[p].user)
             /\ \A q \in Products :
                   product'[q].stock = product[q].stock - LineQty(so_lines[i], q)
             /\ so'[i].status = CONFIRMED
             /\ so'[i].confirmed_by = proc[p].user
             /\ so'[i].confirmed_at # NULL
             /\ Cardinality(R) = 1
             /\ \A j \in R : /\ fin'[j].status = OPEN
                             /\ fin'[j].paid_at = NULL
                             /\ fin'[j].amount = SumLines(so_lines[i], "unit_price")]_vars

\* the two-line sales order was confirmed: two OUT movements end the log,
\* its receivable is OPEN with the total of the two lines
C17_Witness ==
    \E p \in Procs :
        /\ proc[p].pc = "idle" /\ proc[p].kind = "so_confirm" /\ proc[p].ok
        /\ outcome.p = p
        /\ so[proc[p].oid].status = CONFIRMED
        /\ so[proc[p].oid].confirmed_by = p
        /\ Len(so_lines[proc[p].oid]) = 2
        /\ Len(movements) >= 2
        /\ SubSeq(movements, Len(movements) - 1, Len(movements))
               = MovementsOf(so_lines[proc[p].oid], TYPE_OUT, p)
        /\ \E j \in FinIds(fin) :
              /\ FinKey(fin[j]) = <<RECEIVABLE, SALE, proc[p].oid>>
              /\ fin[j].status = OPEN
              /\ fin[j].amount = SumLines(so_lines[proc[p].oid], "unit_price")
              /\ fin[j].amount > 500

\* C18: confirm followed by cancel of a sales order is a round trip on
\* stock: when a cancel of a CONFIRMED order succeeds and the log holds, after
\* the first stock of the products, nothing but the OUT movements of the
\* order (no other order and no direct movement came in between), every
\* product of the order has the stock it had before the confirm, and the
\* cancel appended one IN movement per line with the quantity of the line.
C18_ConfirmCancelRoundTrip ==
    [][\A p \in Procs :
          LET i == proc[p].oid
              lines == so_lines[i]
              n == Len(movements) - Len(lines)
          IN
          ( /\ proc[p].kind = "so_cancel" /\ proc[p].pc \in {"void_get", "void_found"}
            /\ proc'[p].pc = "idle" /\ proc'[p].ok
            /\ n >= 0
            /\ SubSeq(movements, n + 1, Len(movements))
                   = MovementsOf(lines, TYPE_OUT, so[i].confirmed_by)
            /\ \A k \in 1..n : movements[k].created_by = NULL )
          => /\ movements' = movements \o MovementsOf(lines, TYPE_IN, proc[p].user)
             /\ \A q \in LineProducts(lines) :
                   product'[q].stock = stock_calculated(SubSeq(movements, 1, n), q)]_vars

\* C19: after a successful cancel of a CONFIRMED sales order the receivable
\* of the order, if there is one, is VOID with paid_at null; if there is none
\* the call of void_receivable_for_sale returns, the cancel succeeds and no
\* financial movement is created.
C19_CancelVoidsReceivable ==
    [][\A p \in Procs :
          ( /\ proc[p].kind = "so_cancel" /\ proc[p].pc \in {"void_get", "void_found"}
            /\ proc'[p].pc = "idle" )
          => LET i == proc[p].oid IN
             /\ proc'[p].ok =>
                   /\ so'[i].status = CANCELLED
                   /\ Len(fin') = Len(fin)
                   /\ \A j \in FinLookup(fin', RECEIVABLE, SALE, i) :
                         fin'[j].status = VOID /\ fin'[j].paid_at = NULL
             /\ FinLookup(fin, RECEIVABLE, SALE, i) = {} => (proc'[p].ok /\ fin' = fin)]_vars

\* the cancel of a CONFIRMED order found the receivable OPEN and left it VOID
C19_Witness ==
    \E p \in Procs :
        /\ proc[p].pc = "idle" /\ proc[p].kind = "so_cancel" /\ proc[p].ok
        /\ outcome.p = p
        /\ so[proc[p].oid].status = CANCELLED
        /\ so[proc[p].oid].confirmed_at # NULL
        /\ proc[p].inst.pk # NULL
        /\ proc[p].inst.status = OPEN
        /\ FinKey(fin[proc[p].inst.pk]) = <<RECEIVABLE, SALE, proc[p].oid>>
        /\ fin[proc[p].inst.pk].status = VOID
        /\ fin[proc[p].inst.pk].paid_at = NULL

\* C20: a cancel of a CONFIRMED sales order whose receivable is PAID fails
\* and writes nothing: the order stays CONFIRMED without cancel fields, no IN
\* movement is stored, every stock is as it was and the receivable stays
\* PAID.
C20_CancelOfPaidRolledBack ==
    [][\A p \in Procs :
          LET i == outcome'.id IN
          ( /\ outcome'.n # outcome.n /\ outcome'.p = p /\ outcome'.op = "so_cancel"
            /\ so[i].status = CONFIRMED
            /\ \E j \in FinLookup(fin, RECEIVABLE, SALE, i) : fin[j].status = PAID )
          => /\ ~outcome'.ok
             /\ so' = so
             /\ so[i].cancelled_by = NULL /\ so[i].cancelled_at = NULL
             /\ movements' = movements
             /\ product' = product
             /\ fin' = fin]_vars

\* a cancel went as far as the receivable, found it PAID and was refused: the
\* order is CONFIRMED, the log holds no IN movement but the first stock, the
\* stock is what the log gives
C20_Witness ==
    \E p \in Procs :
        /\ proc[p].pc = "idle" /\ proc[p].kind = "so_cancel" /\ ~proc[p].ok
        /\ outcome.p = p
        /\ proc[p].inst.pk # NULL
        /\ proc[p].inst.status = PAID
        /\ fin[proc[p].inst.pk].status = PAID
        /\ so[proc[p].oid].status = CONFIRMED
        /\ so[proc[p].oid].cancelled_at = NULL
        /\ \A m \in 1..Len(movements) :
              movements[m].movement_type = TYPE_IN => movements[m].created_by = NULL
        /\ \A q \in Products : product[q].stock = stock_calculated(movements, q)

\* ------------------------------------------- receive and hand-made ledger rows
\* purchase requests next to FinancialMovement rows created by hand, which
\* may take the key of the payable of the order
NextHook ==
    \E p \in Procs :
        \/ FMCreate(p)
        \/ PO_Load(p)
        \/ PO_Confirm(p)
        \/ PO_Cancel(p)
        \/ PO_ReceiveBegin(p)
        \/ PO_ReceiveLine(p)
        \/ PO_ReceiveStatus(p)
        \/ EnsGet(p)
        \/ EnsClean(p)
        \/ EnsInsert(p)
        \/ EnsFound(p)

SpecHook == Init /\ [][NextHook]_vars

\* C21: in purchase receive the payable call is best-effort: when
\* ensure_payable_for_purchase fails, the IN movements of the receive, the
\* stock they gave and the status RECEIVED of the order are stored all the
\* same, so that a RECEIVED order without a payable can be seen.
C21_HookFailureKeepsReceive ==
    [][\A p \in Procs :
          ( /\ proc[p].kind = "po_receive"
            /\ proc[p].pc \in {"ens_get", "ens_clean", "ens_insert", "ens_found"}
            /\ proc'[p].pc = "idle" /\ ~proc'[p].ok )
          => LET i == proc[p].oid IN
             /\ po'[i].status = RECEIVED
             /\ movements' = movements \o MovementsOf(po_lines[i], TYPE_IN, proc[p].user)
             /\ \A q \in Products :
                   product'[q].stock = product[q].stock + LineQty(po_lines[i], q)]_vars

\* ------------------------------------------------ the stock movement log
\* every request of the orders and stock spec, next to attempts to change or
\* delete a stored movement
NextLog ==
    \E p \in Procs :
        \/ DM_Start(p)
        \/ DM_Save(p)
        \/ SM_Save(p)
        \/ SM_Admin(p)
        \/ PE_Load(p)
        \/ PE_Save(p)
        \/ PO_Load(p)
        \/ PO_Confirm(p)
        \/ PO_Cancel(p)
        \/ PO_ReceiveBegin(p)
        \/ PO_ReceiveLine(p)
        \/ PO_ReceiveStatus(p)
        \/ SO_Start(p)
        \/ SO_Lock(p)
        \/ SO_LockProduct(p)
        \/ SO_ConfirmRun(p)
        \/ SO_CancelRun(p)
        \/ EnsGet(p)
        \/ EnsClean(p)
        \/ EnsInsert(p)
        \/ EnsFound(p)
        \/ VoidGet(p)
        \/ VoidFound(p)

SpecLog == Init /\ [][NextLog]_vars

LinesOf(lines, q) == SelectSeq(lines, LAMBDA l : l.product = q)

\* SalesOrderLine.clean, so_status being the status of the order that the
\* line holds (the cached instance) or, without one, the stored status
SalesOrderLine_clean(ln, so_status) ==
    /\ ln.quantity > 0
    /\ _money(ln.unit_price) >= 0
    /\ product[ln.product].is_active
    /\ so_status = DRAFT

\* the end of a line request, which runs in autocommit: only the lines of
\* sales order i change
LineDone(p, ok, i, newlines) ==
    /\ so_lines' = [so_lines EXCEPT ![i] = newlines]
    /\ proc' = [proc EXCEPT ![p].pc = "idle", ![p].ok = ok]
    /\ outcome' = [op |-> proc[p].kind, ok |-> ok, id |-> i, p |-> p,
                   mt |-> proc[p].mt, amt |-> proc[p].amt, n |-> outcome.n + 1]
    /\ UNCHANGED <<stock_vars, po, po_lines, po_lock, so, so_lock, fin_vars, tx>>

\* sales_order_add_line / sales_order_update_line / sales_order_delete_line
\* up to the read of the line: the order is read without a lock and must be
\* DRAFT, the product must be active, update and delete need the line
SL_Load(p) ==
    /\ Start(p)
    /\ \E kind \in {"so_add_line", "so_update_line", "so_delete_line"},
          i \in SOIds, q \in Products :
       \E n \in (IF kind = "so_delete_line" THEN {0} ELSE 1..MaxQty),
          up \in (IF kind = "so_delete_line" THEN {<<>>} ELSE {<<>>, <<500>>}) :
         LET req == [IdleProc EXCEPT !.pc = "sl_write", !.kind = kind, !.oid = i, !.user = p,
                                     !.product_id = q, !.qty = n, !.unit_price = up,
                                     !.lines = LinesOf(so_lines[i], q)]
         IN IF \/ so[i].status # DRAFT
               \/ kind = "so_add_line" /\ ~product[q].is_active
               \/ kind # "so_add_line" /\ req.lines = <<>>
               \/ kind = "so_update_line" /\ ~product[q].is_active
            THEN Refuse(p, req)
            ELSE /\ proc' = [proc EXCEPT ![p] = req]
                 /\ UNCHANGED <<stock_vars, order_vars, fin_vars, tx, outcome>>

\* the write of a line request: full_clean and save of the line the view
\* read or built, or delete of the line it read
SL_Write(p) ==
    /\ proc[p].pc = "sl_write"
    /\ LET i == proc[p].oid
           q == proc[p].product_id
           old == proc[p].lines
           cur == LinesOf(so_lines[i], q)
           price(dflt) == IF proc[p].unit_price # <<>> THEN proc[p].unit_price[1] ELSE dflt
           put(ln) == [k \in DOMAIN so_lines[i] |->
                         IF so_lines[i][k].product = q
                         THEN [so_lines[i][k] EXCEPT !.quantity = ln.quantity,
                                                     !.unit_price = _money(ln.unit_price)]
                         ELSE so_lines[i][k]]
       IN
       IF proc[p].kind = "so_delete_line"
       THEN LineDone(p, TRUE, i, SelectSeq(so_lines[i], LAMBDA l : l.product # q))
       ELSE IF old = <<>>
       THEN \* a new line holds the order instance the view read: DRAFT
            LET ln == [product |-> q, quantity |-> proc[p].qty, unit_cost |-> 0,
                       unit_price |-> price(0)]
            IN IF SalesOrderLine_clean(ln, DRAFT) /\ cur = <<>>
               THEN LineDone(p, TRUE, i, Append(so_lines[i],
                                                [ln EXCEPT !.unit_price = _money(@)]))
               ELSE LineDone(p, FALSE, i, so_lines[i])
       ELSE \* a line that was read has no cached order: clean reads the status
            LET ln == [old[1] EXCEPT
                          !.quantity = IF proc[p].kind = "so_add_line" THEN @ + proc[p].qty
                                       ELSE proc[p].qty,
                          !.unit_price = price(@)]
            IN IF SalesOrderLine_clean(ln, so[i].status) /\ cur # <<>>
               THEN LineDone(p, TRUE, i, put(ln))
               ELSE LineDone(p, FALSE, i, so_lines[i])
    /\ UNCHANGED ops

\* line requests next to confirm and cancel of the sales orders
NextLines ==
    \E p \in Procs :
        \/ SL_Load(p)
        \/ SL_Write(p)
        \/ SO_Start(p)
        \/ SO_Lock(p)
        \/ SO_LockProduct(p)
        \/ SO_ConfirmRun(p)
        \/ SO_CancelRun(p)
        \/ EnsGet(p)
        \/ EnsClean(p)
        \/ EnsInsert(p)
        \/ VoidGet(p)
        \/ VoidFound(p)

SpecLines == Init /\ [][NextLines]_vars

\* C23: once an order is stored with a status other than DRAFT, none of its
\* lines is added, changed or deleted, whatever the interleaving of line
\* requests with a confirm of the order.
C23_LinesFrozenAfterDraft ==
    [][/\ \A i \in SOIds : so[i].status # DRAFT => so_lines'[i] = so_lines[i]
       /\ \A i \in POIds : po[i].status # DRAFT => po_lines'[i] = po_lines[i]]_vars

\* C24: add-line requests for one (sales order, product) pair add up: when
\* such a request reports success and no other kind of line request is
\* around, the pair has exactly one line and its quantity is the quantity
\* it had plus the quantity of the request.
C24_AddLineAddsUp ==
    [][\A p \in Procs :
          ( /\ proc[p].pc = "sl_write" /\ proc[p].kind = "so_add_line"
            /\ proc'[p].pc = "idle" /\ proc'[p].ok
            /\ so[proc[p].oid].status = DRAFT
            /\ \A r \in Procs : proc[r].kind \in {"none", "so_add_line"} )
          => LET i == proc[p].oid
                 q == proc[p].product_id
             IN /\ Len(LinesOf(so_lines'[i], q)) = 1
                /\ LineQty(so_lines'[i], q) = LineQty(so_lines[i], q) + proc[p].qty]_vars

\* ------------------------------------------------------ product row locks
\* the purchase order is CONFIRMED and its first line (lines are read in the
\* order of their ids) is of product 2, its second of product 1; sales order
\* 1 is DRAFT with a line of each product
InitLocks ==
    /\ InitCommon
    /\ fin = <<>>
    /\ product = [q \in Products |-> [stock |-> MaxQty, is_active |-> TRUE]]
    /\ movements = <<FirstStock(1, MaxQty), FirstStock(2, MaxQty)>>
    /\ po = [i \in POIds |-> [NewPO EXCEPT !.status = CONFIRMED, !.confirmed_by = 1,
                                            !.confirmed_at = NOW]]
    /\ po_lines = [i \in POIds |-> <<Line(2, 1, 500), Line(1, 1, 500)>>]
    /\ so = [i \in SOIds |-> NewSO]
    /\ so_lines = [i \in SOIds |-> IF i = 1 THEN <<Line(1, 1, 500), Line(2, 1, 500)>>
                                   ELSE <<Line(1, 1, 500)>>]

SpecLocks == InitLocks /\ [][Next]_vars

\* C25: the operations that lock more than one product row take the locks
\* in one global order, so that no two of them ever wait for each other:
\* there are no two requests each of which waits for a product row that the
\* other one holds.
C25_NoLockCycle ==
    LET Wanted(p) ==
            IF proc[p].pc = "po_recv_line"
                 /\ StockMovement_clean(proc[p].lines[proc[p].idx].product, TYPE_IN,
                                        proc[p].lines[proc[p].idx].quantity)
            THEN {proc[p].lines[proc[p].idx].product}
            ELSE IF proc[p].pc = "so_products"
            THEN {CHOOSE x \in proc[p].todo : \A y \in proc[p].todo : x <= y}
            ELSE {}
    IN ~\E p, r \in Procs :
          /\ p # r
          /\ \E q \in Wanted(p) : product_lock[q] = r
          /\ \E q \in Wanted(r) : product_lock[q] = p

\* C26: a catalog edit of a product never changes its stock: the save of
\* the edit leaves the stock of every product as it is stored, and after it
\* the stock of the product is what its movements give.
C26_EditKeepsStock ==
    [][\A p \in Procs :
          (proc[p].pc = "pe_save" /\ proc'[p].pc = "idle")
          => /\ \A q \in Products : product'[q].stock = product[q].stock
             /\ product'[proc[p].oid].stock = stock_calculated(movements', proc[p].oid)]_vars

\* --------------------------------------------- finance: summary and listing
\* Sum("amount") over the rows of table t of type mt and status st, 0 when
\* there is none
RECURSIVE AmountSum(_, _, _)
AmountSum(t, mt, st) ==
    IF t = <<>> THEN 0
    ELSE (IF Head(t).movement_type = mt /\ Head(t).status = st THEN Head(t).amount ELSE 0)
         + AmountSum(Tail(t), mt, st)

\* finance.services.build_financial_summary: the amount of each bucket is
\* _q2(_sum_amount(sub)); net_open is _q2 of the difference of two of them
build_financial_summary(t) ==
    LET bucket(mt, st) ==
            [count |-> Cardinality({j \in FinIds(t) : t[j].movement_type = mt /\ t[j].status = st}),
             amount |-> _q2(_q2(AmountSum(t, mt, st)))]
    IN [payables |-> [open |-> bucket(PAYABLE, OPEN), paid |-> bucket(PAYABLE, PAID),
                      void |-> bucket(PAYABLE, VOID)],
        receivables |-> [open |-> bucket(RECEIVABLE, OPEN), paid |-> bucket(RECEIVABLE, PAID),
                         void |-> bucket(RECEIVABLE, VOID)],
        net_open |-> _q2(bucket(RECEIVABLE, OPEN).amount - bucket(PAYABLE, OPEN).amount)]

\* ---- finance.views.financial_summary, without filters
FinSummary(p) ==
    /\ Start(p)
    /\ proc' = [proc EXCEPT ![p] = [IdleProc EXCEPT
                                      !.kind = "summary",
                                      !.net_open = <<build_financial_summary(fin).net_open>>]]
    /\ outcome' = [NoOutcome EXCEPT !.op = "summary", !.p = p, !.n = outcome.n + 1]
    /\ UNCHANGED <<stock_vars, order_vars, fin_vars, tx>>

\* str.strip() of a text held as a sequence of pieces, " " being white space
RECURSIVE str_strip(_)
str_strip(s) ==
    IF s = <<>> THEN s
    ELSE IF Head(s) = " " THEN str_strip(Tail(s))
    ELSE IF s[Len(s)] = " " THEN str_strip(SubSeq(s, 1, Len(s) - 1))
    ELSE s

\* allowed_ordering of financial_movements_list
allowed_ordering ==
    {<<f>> : f \in {"created_at", "paid_at", "amount", "id"}}
       \cup {<<"-", f>> : f \in {"created_at", "paid_at", "amount", "id"}}

\* the ordering parameters of the requests: up to MaxKeyLen pieces; the empty
\* one is a request without the parameter
OrderingParams ==
    UNION {[1..n -> {" ", "-", "id", "x"}] : n \in 0..MaxKeyLen}

\* faulty variant: the key goes to the query unchecked
financial_movements_list_unchecked(raw) ==
    [ok |-> TRUE, order_by |-> <<str_strip(IF raw = <<>> THEN <<"-", "created_at">> ELSE raw)>>]

\* financial_movements_list: ordering = (GET.get("ordering") or
\* "-created_at").strip(); a key outside allowed_ordering raises
\* ValidationError (400), else the query is ordered by it
financial_movements_list(raw) ==
    LET ordering == str_strip(IF raw = <<>> THEN <<"-", "created_at">> ELSE raw) IN
    IF ordering \notin allowed_ordering THEN [ok |-> FALSE, order_by |-> <<>>]
    ELSE [ok |-> TRUE, order_by |-> <<ordering>>]

\* ---- GET /finance/movements/?ordering=raw
FinList(p) ==
    /\ Start(p)
    /\ \E raw \in OrderingParams :
         LET res == financial_movements_list(raw) IN
         /\ proc' = [proc EXCEPT ![p] = [IdleProc EXCEPT !.kind = "list", !.ok = res.ok,
                                                         !.ordering = raw,
                                                         !.order_by = res.order_by]]
         /\ outcome' = [NoOutcome EXCEPT !.op = "list", !.ok = res.ok, !.p = p,
                                         !.n = outcome.n + 1]
    /\ UNCHANGED <<stock_vars, order_vars, fin_vars, tx>>

\* the ledger holds up to two movements of different documents, OPEN with
\* amount 0.00, 0.50 or 1.00, PAID or VOID with amount 0.50
InitReports ==
    /\ InitCommon
    /\ product = [q \in Products |-> [stock |-> 0, is_active |-> TRUE]]
    /\ movements = <<>>
    /\ po = [i \in POIds |-> NewPO]
    /\ po_lines = [i \in POIds |-> <<>>]
    /\ so = [i \in SOIds |-> NewSO]
    /\ so_lines = [i \in SOIds |-> <<>>]
    /\ \E n \in 0..2 :
       \E mts \in [1..n -> MovementTypes],
          sts \in [1..n -> {<<OPEN, 0>>, <<OPEN, 500>>, <<OPEN, 1000>>, <<PAID, 500>>,
                            <<VOID, 500>>}] :
         fin = [k \in 1..n |->
                  RowOf([NoInst EXCEPT !.movement_type = mts[k],
                                       !.source_type = SourceTypeOf(mts[k]),
                                       !.source_id = k, !.amount = sts[k][2],
                                       !.status = sts[k][1],
                                       !.paid_at = IF sts[k][1] = PAID THEN NOW ELSE NULL])]

NextReports ==
    \E p \in Procs :
        \/ FinSummary(p)
        \/ FinList(p)

SpecReports == InitReports /\ [][NextReports]_vars

\* C27: net_open of the summary is the sum of the amounts of the OPEN
\* RECEIVABLE movements minus the sum of the amounts of the OPEN PAYABLE
\* movements, be the difference positive, zero or negative.
C27_NetOpenIsDifference ==
    [][\A p \in Procs :
          (outcome'.n # outcome.n /\ outcome'.p = p /\ outcome'.op = "summary")
          => proc'[p].net_open = <<AmountSum(fin, RECEIVABLE, OPEN)
                                     - AmountSum(fin, PAYABLE, OPEN)>>]_vars

\* C29 as stated: every ordering parameter that is not one of the keys of
\* the whitelist is answered with 400 and no key goes to the query.
C29_OutsideWhitelistRejected ==
    [][\A p \in Procs :
          ( /\ outcome'.n # outcome.n /\ outcome'.p = p /\ outcome'.op = "list"
            /\ proc'[p].ordering # <<>>
            /\ proc'[p].ordering \notin allowed_ordering )
          => ~proc'[p].ok /\ proc'[p].order_by = <<>>]_vars

\* C29: the listing trims white space around the ordering parameter; a
\* parameter that is given and, once trimmed, is not one of created_at,
\* paid_at, amount, id, each with or without a leading "-", is answered with
\* 400 and no key goes to the query; the key that goes to the query is
\* always one of those eight.
C29_TrimmedOutsideWhitelistRejected ==
    [][\A p \in Procs :
          (outcome'.n # outcome.n /\ outcome'.p = p /\ outcome'.op = "list")
          => LET raw == proc'[p].ordering
                 body == SelectSeq(raw, LAMBDA c : c # " ")
                 inner == \A k \in 1..Len(raw) :
                             raw[k] = " " => (\A j \in 1..k : raw[j] = " ")
                                             \/ (\A j \in k..Len(raw) : raw[j] = " ")
                 eight == {<<"created_at">>, <<"-", "created_at">>, <<"paid_at">>,
                           <<"-", "paid_at">>, <<"amount">>, <<"-", "amount">>,
                           <<"id">>, <<"-", "id">>}
             IN /\ (raw # <<>> /\ ~(inner /\ body \in eight))
                      => ~proc'[p].ok /\ proc'[p].order_by = <<>>
                /\ proc'[p].ok => proc'[p].order_by \in {<<k>> : k \in eight}]_vars

\* a parameter outside the whitelist was answered with 400, and a
\* parameter with white space before a key of the whitelist was accepted and
\* ordered the query by the key
C29_Witness ==
    \E p, r \in Procs :
        /\ proc[p].pc = "idle" /\ proc[p].kind = "list" /\ ~proc[p].ok
        /\ proc[p].ordering = <<"-", "x">>
        /\ proc[p].order_by = <<>>
        /\ proc[r].pc = "idle" /\ proc[r].kind = "list" /\ proc[r].ok
        /\ proc[r].ordering = <<" ", "id">>
        /\ proc[r].order_by = <<<<"id">>>>

\* C28: in every stored state of a purchase order received_by and
\* received_at are set if and only if the status is RECEIVED; confirmed_by
\* and confirmed_at are set when the status is CONFIRMED or RECEIVED and
\* unset when it is DRAFT, and a cancel of a DRAFT order leaves them unset.
C28_PurchaseAuditFields ==
    [][\A i \in POIds :
          /\ po'[i].status = RECEIVED
                => (po'[i].received_by # NULL /\ po'[i].received_at # NULL)
          /\ po'[i].status # RECEIVED
                => (po'[i].received_by = NULL /\ po'[i].received_at = NULL)
          /\ po'[i].status \in {CONFIRMED, RECEIVED}
                => (po'[i].confirmed_by # NULL /\ po'[i].confirmed_at # NULL)
          /\ po'[i].status = DRAFT
                => (po'[i].confirmed_by = NULL /\ po'[i].confirmed_at = NULL)
          /\ (po[i].status = DRAFT /\ po'[i].status = CANCELLED)
                => (po'[i].confirmed_by = NULL /\ po'[i].confirmed_at = NULL)]_vars

\* a cancel that had read the order as CONFIRMED was stored over the
\* RECEIVED left by a receive: the order is CANCELLED, the receive fields are
\* unset again, the confirm fields are kept
C28_Witness ==
    \E p, r \in Procs :
        /\ p # r
        /\ proc[p].pc = "idle" /\ proc[p].kind = "po_cancel" /\ proc[p].ok
        /\ proc[r].pc = "idle" /\ proc[r].kind = "po_receive" /\ proc[r].ok
        /\ proc[r].oid = proc[p].oid
        /\ outcome.p = p
        /\ po[proc[p].oid].status = CANCELLED
        /\ po[proc[p].oid].received_by = NULL /\ po[proc[p].oid].received_at = NULL
        /\ po[proc[p].oid].confirmed_by # NULL /\ po[proc[p].oid].confirmed_at # NULL

\* C30: purchase order confirm, purchase order cancel and sales order cancel
\* of a DRAFT order store no stock movement, leave the stock of every
\* product as it is and create or change no financial movement.
C30_NoStockNoLedgerEffect ==
    [][\A p \in Procs :
          ( /\ outcome'.n # outcome.n /\ outcome'.p = p
            /\ \/ outcome'.op \in {"po_confirm", "po_cancel"}
               \/ outcome'.op = "so_cancel" /\ so[outcome'.id].status = DRAFT )
          => /\ movements' = movements
             /\ product' = product
             /\ fin' = fin]_vars

\* a purchase order was confirmed and a DRAFT sales order with two lines was
\* cancelled: the log holds the first stock only and the ledger is empty
C30_Witness ==
    \E p, r \in Procs :
        /\ proc[p].pc = "idle" /\ proc[p].kind = "po_confirm" /\ proc[p].ok
        /\ po[proc[p].oid].status = CONFIRMED
        /\ po[proc[p].oid].confirmed_by = p
        /\ proc[r].pc = "idle" /\ proc[r].kind = "so_cancel" /\ proc[r].ok
        /\ so[proc[r].oid].status = CANCELLED
        /\ so[proc[r].oid].confirmed_at = NULL
        /\ Len(so_lines[proc[r].oid]) = 2
        /\ \A m \in 1..Len(movements) : movements[m].created_by = NULL
        /\ fin = <<>>

\* the total quantity the IN movements made by users hold of product q
RECURSIVE ReceivedQty(_, _)
ReceivedQty(log, q) ==
    IF log = <<>> THEN 0
    ELSE (IF /\ Head(log).product = q
             /\ Head(log).movement_type = TYPE_IN
             /\ Head(log).created_by # NULL
          THEN Head(log).quantity ELSE 0) + ReceivedQty(Tail(log), q)

\* C31: in every reachable state a purchase order stored as CANCELLED has no
\* PAYABLE financial movement and no stock movement made from it, also when
\* receive and cancel requests run together on the same CONFIRMED order.
C31_CancelledPurchaseLeftNoTrace ==
    \A i \in POIds :
        po[i].status = CANCELLED
        => /\ ~\E j \in FinIds(fin) :
                  FinKey(fin[j]) = <<PAYABLE, PURCHASE, i>>
           /\ ~\E p \in Procs :
                  /\ proc[p].pc = "idle" /\ proc[p].kind = "po_receive"
                  /\ proc[p].oid = i /\ proc[p].ok

\* C32: however many receive requests are made for a purchase order, its
\* lines go to stock at most once: for each product the IN quantity made by
\* receives never exceeds the quantity of the lines of the orders.  (Among
\* the purchase requests every IN movement made by a user comes from a
\* receive.)
C32_ReceivedAtMostOnce ==
    \A q \in Products :
        LET RECURSIVE Ordered(_)
            Ordered(n) == IF n = 0 THEN 0 ELSE LineQty(po_lines[n], q) + Ordered(n - 1)
        IN ReceivedQty(movements, q) <= Ordered(NPurchaseOrders)

\* C33: under every interleaving of confirm and cancel requests on a sales
\* order its stored status only goes DRAFT -> CONFIRMED, DRAFT -> CANCELLED
\* or CONFIRMED -> CANCELLED; its lines are taken from stock (OUT) by the one
\* step that stores CONFIRMED over DRAFT and given back (IN) by the one step
\* that stores CANCELLED over CONFIRMED, so each happens at most once and the
\* lines are given back only if they were taken; a cancel of a DRAFT order
\* and a refused request write no movement.
C33_SalesTransitionsOnce ==
    [][/\ \A i \in SOIds :
             so'[i].status # so[i].status
             => <<so[i].status, so'[i].status>>
                   \in {<<DRAFT, CONFIRMED>>, <<DRAFT, CANCELLED>>, <<CONFIRMED, CANCELLED>>}
       /\ \A p \in Procs :
             ( /\ outcome'.n # outcome.n /\ outcome'.p = p
               /\ outcome'.op \in {"so_confirm", "so_cancel"} )
             => LET i == outcome'.id
                    user == proc[p].user
                IN IF ~outcome'.ok
                   THEN movements' = movements /\ so' = so
                   ELSE IF outcome'.op = "so_confirm"
                   THEN /\ so[i].status = DRAFT /\ so'[i].status = CONFIRMED
                        /\ movements' = movements \o MovementsOf(so_lines[i], TYPE_OUT, user)
                   ELSE IF so[i].status = CONFIRMED
                   THEN /\ so'[i].status = CANCELLED
                        /\ movements' = movements \o MovementsOf(so_lines[i], TYPE_IN, user)
                   ELSE /\ so[i].status = DRAFT /\ so'[i].status = CANCELLED
                        /\ movements' = movements]_vars

\* a confirm by one user and a cancel by the other both succeeded on the
\* two-line order: the log ends with the OUT movements of the confirm
\* followed by the IN movements of the cancel
C33_Witness ==
    \E p, r \in Procs :
        LET i == proc[p].oid
            n == Len(so_lines[i])
        IN
        /\ p # r
        /\ proc[p].pc = "idle" /\ proc[p].kind = "so_confirm" /\ proc[p].ok
        /\ proc[r].pc = "idle" /\ proc[r].kind = "so_cancel" /\ proc[r].ok
        /\ proc[r].oid = i
        /\ n = 2
        /\ so[i].status = CANCELLED
        /\ so[i].confirmed_by = p /\ so[i].cancelled_by = r
        /\ Len(movements) >= 2 * n
        /\ SubSeq(movements, Len(movements) - 2 * n + 1, Len(movements))
               = MovementsOf(so_lines[i], TYPE_OUT, p) \o MovementsOf(so_lines[i], TYPE_IN, r)

\* the steps of ensure_payable_for_purchase / ensure_receivable_for_sale
EnsurePcs == {"ens_get", "ens_clean", "ens_insert", "ens_found"}

\* C34: in sales confirm and in purchase receive the ledger ensure call is
\* made only after every stock movement of the transition and the update of
\* the status of the order have been written: while the request is inside
\* the ensure call its transaction holds one movement per line of the order
\* and the new status, and no stock write is made from then on.
C34_EnsureAfterStockWrites ==
    [][\A p \in Procs :
          (proc'[p].pc \in EnsurePcs /\ proc'[p].kind \in {"so_confirm", "po_receive"})
          => LET r == proc'[p]
                 t == tx'[p]
             IN /\ IF r.kind = "so_confirm"
                   THEN /\ t.movs = MovementsOf(r.lines, TYPE_OUT, r.user)
                        /\ t.so_id = r.oid /\ "status" \in t.so_uf
                        /\ t.so_row.status = CONFIRMED
                   ELSE /\ t.movs = MovementsOf(r.lines, TYPE_IN, r.user)
                        /\ t.po_id = r.oid /\ "status" \in t.po_uf
                        /\ t.po_row.status = RECEIVED
                /\ r.lines # <<>>
                /\ \A q \in LineProducts(r.lines) : q \in t.touched /\ product_lock'[q] = p
                /\ proc[p].pc \in EnsurePcs => (t = tx[p] /\ r.lines = proc[p].lines)]_vars

\* a sales confirm is inside ensure_receivable_for_sale with the two OUT
\* movements of its order written, after a purchase receive went through
\* the same
C34_Witness ==
    \E p, r \in Procs :
        /\ proc[p].pc = "ens_clean" /\ proc[p].kind = "so_confirm"
        /\ Len(tx[p].movs) = 2
        /\ tx[p].so_row.status = CONFIRMED
        /\ so[proc[p].oid].status = DRAFT
        /\ proc[r].pc = "idle" /\ proc[r].kind = "po_receive" /\ proc[r].ok
        /\ po[proc[r].oid].status = RECEIVED
        /\ Len(fin) = 1

\* ------------------------------------------------ sales requests, with or
\* without an actor (ensure never finds a receivable here: an order is
\* confirmed once)
NextActor ==
    \E p \in Procs :
        \/ SO_Start(p)
        \/ SO_StartNoActor(p)
        \/ SO_Lock(p)
        \/ SO_LockProduct(p)
        \/ SO_ConfirmRun(p)
        \/ SO_CancelRun(p)
        \/ EnsGet(p)
        \/ EnsClean(p)
        \/ EnsInsert(p)
        \/ VoidGet(p)
        \/ VoidFound(p)

SpecActor == Init /\ [][NextActor]_vars

\* C35: a cancel without an actor (user is None) of a sales order that is
\* CONFIRMED is refused, and the order, the stock of every product, the
\* stock-movement log and the ledger are as before; a cancel without an actor
\* of a DRAFT order succeeds and leaves it CANCELLED.
C35_CancelNeedsActor ==
    [][\A p \in Procs :
          ( /\ outcome'.n # outcome.n /\ outcome'.p = p /\ outcome'.op = "so_cancel"
            /\ proc'[p].user = NULL )
          => LET i == outcome'.id IN
             /\ so[i].status = CONFIRMED
                   => /\ ~outcome'.ok
                      /\ so' = so /\ product' = product /\ movements' = movements
                      /\ fin' = fin
             /\ so[i].status = DRAFT
                   => /\ outcome'.ok
                      /\ so'[i].status = CANCELLED /\ so'[i].cancelled_by = NULL
                      /\ so'[i].cancelled_at # NULL
                      /\ product' = product /\ movements' = movements /\ fin' = fin]_vars

\* a cancel without an actor was refused on the order the other request had
\* confirmed, which is still CONFIRMED with its receivable OPEN
C35_Witness ==
    \E p, r \in Procs :
        /\ proc[p].pc = "idle" /\ proc[p].kind = "so_cancel" /\ ~proc[p].ok
        /\ proc[p].user = NULL
        /\ outcome.p = p
        /\ proc[r].pc = "idle" /\ proc[r].kind = "so_confirm" /\ proc[r].ok
        /\ proc[r].oid = proc[p].oid
        /\ so[proc[p].oid].status = CONFIRMED
        /\ so[proc[p].oid].cancelled_at = NULL
        /\ \E j \in FinIds(fin) :
              FinKey(fin[j]) = <<RECEIVABLE, SALE, proc[p].oid>> /\ fin[j].status = OPEN

\* C36: under every interleaving of a pay request on the receivable of a
\* sale with a cancel of that CONFIRMED sale, what is committed is either
\* (order CONFIRMED, receivable PAID, stock not given back) or (order
\* CANCELLED, receivable VOID, stock given back): the step that pays an OPEN
\* receivable leaves the order as it is and writes no movement, a PAID
\* receivable stays PAID, the step that voids an OPEN receivable is the step
\* that stores CANCELLED and the IN movements of the lines, and no CANCELLED
\* order has a PAID receivable.
C36_PayAgainstCancel ==
    [][\A i \in SOIds :
          /\ \A j \in FinIds(fin) :
                FinKey(fin[j]) = <<RECEIVABLE, SALE, i>>
                => /\ FinKey(fin'[j]) = FinKey(fin[j])
                   /\ (fin[j].status = OPEN /\ fin'[j].status = PAID)
                         => /\ so' = so /\ so[i].status = CONFIRMED
                            /\ movements' = movements /\ product' = product
                   /\ fin[j].status = PAID => fin'[j].status = PAID
                   /\ (fin[j].status = OPEN /\ fin'[j].status = VOID)
                         => /\ so[i].status = CONFIRMED /\ so'[i].status = CANCELLED
                            /\ \E p \in Procs :
                                  movements' = movements
                                      \o MovementsOf(so_lines[i], TYPE_IN, proc[p].user)
                   /\ (so[i].status = CONFIRMED /\ so'[i].status = CANCELLED)
                         => fin'[j].status = VOID
          /\ so'[i].status = CANCELLED
                => \A j \in FinLookup(fin', RECEIVABLE, SALE, i) : fin'[j].status # PAID]_vars

\* a pay request and a cancel met on the receivable of the confirmed sale:
\* the pay went first, the cancel went as far as the receivable and was
\* rolled back, the order is CONFIRMED with its receivable PAID
C36_Witness ==
    \E p, r \in Procs :
        /\ proc[p].pc = "idle" /\ proc[p].kind = "pay" /\ proc[p].ok
        /\ proc[p].inst.status = OPEN
        /\ FinKey(fin[proc[p].oid]) = <<RECEIVABLE, SALE, 1>>
        /\ fin[proc[p].oid].status = PAID
        /\ proc[r].pc = "idle" /\ proc[r].kind = "so_cancel" /\ ~proc[r].ok
        /\ proc[r].oid = 1
        /\ proc[r].inst.pk = proc[p].oid /\ proc[r].inst.status = PAID
        /\ outcome.p = r
        /\ so[1].status = CONFIRMED
        /\ Len(so_lines[1]) = 2

\* ----------------------------------------- the requests that write stock
\* direct movements, purchase requests and sales requests, without the
\* catalog edit
NextStock ==
    \E p \in Procs :
        \/ DM_Start(p)
        \/ DM_Save(p)
        \/ PO_Load(p)
        \/ PO_Confirm(p)
        \/ PO_Cancel(p)
        \/ PO_ReceiveBegin(p)
        \/ PO_ReceiveLine(p)
        \/ PO_ReceiveStatus(p)
        \/ SO_Start(p)
        \/ SO_Lock(p)
        \/ SO_LockProduct(p)
        \/ SO_ConfirmRun(p)
        \/ SO_CancelRun(p)
        \/ EnsGet(p)
        \/ EnsClean(p)
        \/ EnsInsert(p)
        \/ EnsFound(p)
        \/ VoidGet(p)
        \/ VoidFound(p)

SpecStock == Init /\ [][NextStock]_vars

\* C37: for products created with stock 0, in every committed state the
\* stock of a product is the sum of the quantities of its IN movements minus
\* the sum of the quantities of its OUT movements, after every interleaving
\* of direct movements, purchase receives, sales confirms and sales cancels.
C37_StockIsLogBalance ==
    \A q \in Products : product[q].stock = stock_calculated(movements, q)

\* a direct movement and a sales confirm, both on product 1, both succeeded
\* next to each other; the log holds the first stock, the direct movement
\* and the OUT movement of the sale
C37_Witness ==
    \E p, r \in Procs :
        /\ proc[p].pc = "idle" /\ proc[p].kind = "movement" /\ proc[p].ok
        /\ proc[p].oid = 1
        /\ proc[r].pc = "idle" /\ proc[r].kind = "so_confirm" /\ proc[r].ok
        /\ LineProducts(so_lines[proc[r].oid]) = {1}
        /\ \E k \in 1..Len(movements) :
              movements[k].created_by = p /\ movements[k].quantity = proc[p].qty
        /\ \E k \in 1..Len(movements) :
              movements[k].created_by = r /\ movements[k].movement_type = TYPE_OUT
        /\ product[1].stock = stock_calculated(movements, 1)
        /\ product[1].stock # movements[1].quantity

\* ------------------------------------- purchase requests on any lines
\* the lines a purchase order may hold (a stored line has quantity > 0 and
\* unit_cost >= 0): none, two good lines, a line without cost
InitPurchaseLines == {<<>>, InitPOLines, <<Line(1, 1, 500), Line(2, 1, 0)>>}

\* as Init, with any of these lines; the order is DRAFT or CONFIRMED (a
\* CONFIRMED order got lines like these from a line request that had read it
\* as DRAFT)
InitPurchase ==
    /\ InitCommon
    /\ fin = <<>>
    /\ \E s1 \in 1..MaxQty, s2 \in {0, MaxQty}, a2 \in BOOLEAN :
         /\ product = [q \in Products |->
                         IF q = 1 THEN [stock |-> s1, is_active |-> TRUE]
                         ELSE IF q = 2 THEN [stock |-> s2, is_active |-> a2]
                         ELSE [stock |-> 0, is_active |-> TRUE]]
         /\ movements = <<FirstStock(1, s1)>> \o (IF s2 > 0 THEN <<FirstStock(2, s2)>> ELSE <<>>)
    /\ po \in [POIds -> {NewPO, [NewPO EXCEPT !.status = CONFIRMED, !.confirmed_by = 1,
                                               !.confirmed_at = NOW]}]
    /\ po_lines \in [POIds -> InitPurchaseLines]
    /\ so = [i \in SOIds |-> NewSO]
    /\ so_lines = [i \in SOIds |-> <<Line(1, 1, 500)>>]

\* the purchase requests next to the catalog edit, which may deactivate a
\* product while a receive runs
NextPurchase ==
    \E p \in Procs :
        \/ PE_Load(p)
        \/ PE_Save(p)
        \/ PO_Load(p)
        \/ PO_Confirm(p)
        \/ PO_Cancel(p)
        \/ PO_ReceiveBegin(p)
        \/ PO_ReceiveLine(p)
        \/ PO_ReceiveStatus(p)
        \/ EnsGet(p)
        \/ EnsClean(p)
        \/ EnsInsert(p)
        \/ EnsFound(p)

SpecPurchase == InitPurchase /\ [][NextPurchase]_vars

C39_ConfirmedCanBeCancelled ==
    [][\A p \in Procs :
          LET i == outcome'.id IN
          ( /\ outcome'.n # outcome.n /\ outcome'.p = p /\ outcome'.op = "so_cancel"
            /\ proc'[p].user # NULL
            /\ so[i].status = CONFIRMED
            /\ \A j \in FinLookup(fin, RECEIVABLE, SALE, i) : fin[j].status # PAID )
          => /\ outcome'.ok
             /\ so'[i].status = CANCELLED
             /\ movements' = movements \o MovementsOf(so_lines[i], TYPE_IN, proc'[p].user)]_vars

\* sub in s: the text s holds the text sub
SeqContains(s, sub) ==
    \E k \in 0..(Len(s) - Len(sub)) : SubSeq(s, k + 1, k + Len(sub)) = sub

\* C40: a void of an OPEN movement with a reason appends the reason to the
\* notes of the movement: after the void the notes hold the reason, and the
\* text they held before the void is still there (instance method and
\* void_receivable_for_sale alike).
C40_VoidAppendsReason ==
    [][\A p \in Procs :
          LET j == proc[p].inst.pk
              reason == IF proc[p].pc = "void_found" /\ proc'[p].reason = <<>>
                        THEN AutoCancelNote ELSE proc'[p].reason
          IN
          ( /\ proc'[p].pc = "idle" /\ proc'[p].ok
            /\ \/ proc[p].pc = "loaded" /\ proc'[p].kind = "inst_void"
               \/ proc[p].pc = "void_found"
            /\ proc[p].inst.status = OPEN
            /\ j \in FinIds(fin) /\ fin[j] = RowOf(proc[p].inst)
            /\ reason # <<>> )
          => /\ fin'[j].status = VOID
             /\ SeqContains(fin'[j].notes, reason)
             /\ SeqContains(fin'[j].notes, fin[j].notes)]_vars

====
